---- MODULE Spec2Model ----
(***************************************************************************)
(* The employee directory cache of the HR reporting endpoint               *)
(* (src/unnamed/part_000, lines 465-996): the module-level maps            *)
(* employeeData and departments, the loader loadData(), the query          *)
(* functions and the router doGet().                                       *)
(*                                                                         *)
(* JavaScript values are modelled as follows.                              *)
(*   - a string is the sequence of its UTF-16 code units ("Dev" is         *)
(*     <<68, 101, 118>>), so that toLowerCase, localeCompare and isNaN     *)
(*     are computed, not assumed;                                          *)
(*   - undefined/null in a string-valued place is Undefined;               *)
(*   - a Map is the sequence of its [key, val] entries in insertion        *)
(*     order;                                                              *)
(*   - an object is a record; a property the object does not have is a     *)
(*     field the record does not have;                                     *)
(*   - an instant is a number of clock ticks of MS_PER_TICK milliseconds   *)
(*     since 2023-01-01T00:00:00Z.                                         *)
(***************************************************************************)
EXTENDS Integers, Sequences, FiniteSets, TLC

VARIABLES
    now,            \* the host clock: what new Date() returns
    lastRefresh,    \* script property 'lastRefresh' (NoProperty, or the text of a date)
    employeeData,   \* let employeeData = new Map()
    departments,    \* let departments = new Map()
    called,         \* the function the host called last, and its argument
    triggered,      \* whether that call invoked loadData()
    lastLoad,       \* how the latest loadData() invocation ended: "none", "ok", "failed"
    loadedOkAt,     \* the instant of the latest loadData() that returned true
    loads,          \* number of loadData() invocations so far
    response,       \* the value the latest call returned
    executions,     \* the doGet executions in progress on a concurrent host
    shop,           \* the store: the visitor's current cart and the latest addWorksheetToCart call
    sheet           \* the firing worksheet element: its rows and its total price cell

vars == <<now, lastRefresh, employeeData, departments, called, triggered,
          lastLoad, loadedOkAt, loads, response, executions, shop, sheet>>
\* the state of the HR endpoint, and the state of the firing worksheet's site
hrVars == <<now, lastRefresh, employeeData, departments, called, triggered,
            lastLoad, loadedOkAt, loads, response, executions>>
siteVars == <<shop, sheet>>

----------------------------------------------------------------------------
(* Bounds of the model *)

\* longest report content (rows, null rows included) the fetcher returns
MaxRows == 2
\* loadData() invocations in one behaviour
MaxLoads == 2
\* clock readings modelled after the start of each day, one tick apart
MaxFine == 4
\* rows in the firing worksheet
MaxSheetRows == 2
\* changes of an input of the firing worksheet in one behaviour
MaxChanges == 2

----------------------------------------------------------------------------
(* Time *)

\* resolution of the model's clock, in milliseconds
MS_PER_TICK == 1000 \div 4
MS_PER_DAY == 1000 * 60 * 60 * 24
TICKS_PER_SECOND == 1000 \div MS_PER_TICK
TICKS_PER_DAY == MS_PER_DAY \div MS_PER_TICK
\* MS_PER_DAY * DAYS_PER_MONTH (30.44) and MS_PER_DAY * DAYS_PER_YEAR (365.25), in ticks
TICKS_PER_MONTH == (TICKS_PER_DAY * 3044) \div 100
TICKS_PER_YEAR == (TICKS_PER_DAY \div 100) * 36525
\* 24 * 60 * 60 * 1000 of doGet, in ticks
REFRESH_WINDOW == (24 * 60 * 60 * 1000) \div MS_PER_TICK

\* the clock readings of the model: the first ticks of day 90 (2023-04-01)
\* and of the day after it
NowInit == 90 * TICKS_PER_DAY
Instants == { NowInit + d * TICKS_PER_DAY + k : d \in 0..1, k \in 0..MaxFine }

\* Date.prototype.toString(): text with the date and the time of day to the
\* second ("Sat Apr 01 2023 00:00:00 GMT+0000 (...)"); the milliseconds are
\* not part of the text.  The text is modelled by the second it names.
DateToString(t) == t \div TICKS_PER_SECOND
\* new Date(text).getTime() for such a text
DateFromString(s) == s * TICKS_PER_SECOND
\* PropertiesService getProperty of a key never set returns null
NoProperty == -1

----------------------------------------------------------------------------
(* Strings *)

\* undefined, and null (what JSON carries for a missing value)
Undefined == <<0>>
Null == <<0, 0>>
\* a string-valued place used as a condition: if (s)
Truthy(s) == s # Undefined /\ s # Null /\ s # <<>>

IsUpper(c) == c \in 65..90
\* the string as it is, for toLowerCase
keepCase(s) == s
toLowerCase(s) == [i \in 1..Len(s) |-> IF IsUpper(s[i]) THEN s[i] + 32 ELSE s[i]]

\* lexicographic comparison of two sequences of numbers: -1, 0 or 1
RECURSIVE SeqCompare(_, _)
SeqCompare(a, b) ==
    IF a = <<>> /\ b = <<>> THEN 0
    ELSE IF a = <<>> THEN -1
    ELSE IF b = <<>> THEN 1
    ELSE IF Head(a) < Head(b) THEN -1
    ELSE IF Head(a) > Head(b) THEN 1
    ELSE SeqCompare(Tail(a), Tail(b))

\* the comparison of the UTF-16 code units (a.name < b.name), for localeCompare
CodeUnitCompare(a, b) == SeqCompare(a, b)
\* a.localeCompare(b) on strings of spaces, digits and unaccented letters:
\* the letters decide first, case ignored (space before digits before
\* letters); between strings with the same letters, lower case sorts first.
localeCompare(a, b) ==
    LET p == SeqCompare(toLowerCase(a), toLowerCase(b))
        case(s) == [i \in 1..Len(s) |-> IF IsUpper(s[i]) THEN 1 ELSE 0]
    IN  IF p # 0 THEN p ELSE SeqCompare(case(a), case(b))

\* isNaN(s) for a string s: Number(s) is NaN unless s is empty (Number("") is 0)
\* or a decimal numeral
IsDigits(s) == \A i \in 1..Len(s) : s[i] \in 48..57
\* the test of line 826 left out
isNaNUnchecked(s) == FALSE
isNaN(s) == ~IsDigits(s)

S_all == <<97, 108, 108>>
S_AllDepartments == <<65, 108, 108, 32, 68, 101, 112, 97, 114, 116, 109, 101, 110, 116, 115>>
S_Dev == <<68, 101, 118>>
S_art == <<97, 114, 116>>
S_employees == <<101, 109, 112, 108, 111, 121, 101, 101, 115>>
S_departments == <<100, 101, 112, 97, 114, 116, 109, 101, 110, 116, 115>>
S_slash == <<47>>
S_true == <<116, 114, 117, 101>>
S_false == <<102, 97, 108, 115, 101>>

startsWith(s, p) == Len(s) >= Len(p) /\ SubSeq(s, 1, Len(p)) = p
substring(s, from) == SubSeq(s, from + 1, Len(s))

----------------------------------------------------------------------------
(* Map *)

MapHas(m, k) == \E i \in 1..Len(m) : m[i].key = k
MapIndex(m, k) == CHOOSE i \in 1..Len(m) : m[i].key = k
MapGet(m, k) == m[MapIndex(m, k)].val
MapSet(m, k, v) ==
    IF MapHas(m, k) THEN [m EXCEPT ![MapIndex(m, k)].val = v]
    ELSE Append(m, [key |-> k, val |-> v])
MapKeys(m) == { m[i].key : i \in 1..Len(m) }
MapValues(m) == [i \in 1..Len(m) |-> m[i].val]

\* obj.name for an object that may lack the property
Prop(obj, f) == IF f \in DOMAIN obj THEN obj[f] ELSE Undefined
\* obj.name = v
SetProp(obj, f, v) == [g \in DOMAIN obj \cup {f} |-> IF g = f THEN v ELSE obj[g]]

----------------------------------------------------------------------------
(* Numbers: the integers, and the three values a division can add to them *)

NaN == 2000000000
PositiveInfinity == 2000000001
NegativeInfinity == -2000000001
IsFinite(x) == x \notin {NaN, PositiveInfinity, NegativeInfinity}

\* a + b
JsAdd(a, b) ==
    IF a = NaN \/ b = NaN THEN NaN
    ELSE IF ~IsFinite(a) THEN (IF ~IsFinite(b) /\ b # a THEN NaN ELSE a)
    ELSE IF ~IsFinite(b) THEN b
    ELSE a + b

\* Math.round for Math.floor: the nearest integer to a / b
JsNearestDiv(a, b) == IF IsFinite(a) THEN (2 * a + b) \div (2 * b) ELSE a
\* Math.floor(a / b) for a finite divisor b > 0
JsFloorDiv(a, b) == IF IsFinite(a) THEN a \div b ELSE a

\* Math.round(a / b) for b >= 0: the nearest integer, halves towards +Infinity
JsRoundDiv(a, b) ==
    IF a = NaN \/ b = NaN THEN NaN
    ELSE IF b = 0 THEN (IF a = 0 THEN NaN
                        ELSE IF a > 0 THEN PositiveInfinity ELSE NegativeInfinity)
    ELSE IF ~IsFinite(a) THEN a
    ELSE (2 * a + b) \div (2 * b)

----------------------------------------------------------------------------
(* Dates of the report: "2023-01-01" is modelled as <<2023, 1, 1>> *)

\* days from 1970-01-01 to the civil date y-m-d
DaysFromCivil(y, m, d) ==
    LET yy  == IF m <= 2 THEN y - 1 ELSE y
        era == yy \div 400
        yoe == yy - era * 400
        mp  == IF m > 2 THEN m - 3 ELSE m + 9
        doy == (153 * mp + 2) \div 5 + d - 1
        doe == yoe * 365 + yoe \div 4 - yoe \div 100 + doy
    IN  era * 146097 + doe - 719468

\* new Date("y-m-d").getTime(): midnight UTC of that day; NaN for undefined
DateParse(s) ==
    IF s = Undefined THEN NaN
    ELSE (DaysFromCivil(s[1], s[2], s[3]) - DaysFromCivil(2023, 1, 1)) * TICKS_PER_DAY

\* a - b on instants
JsSub(a, b) == IF a = NaN \/ b = NaN THEN NaN ELSE a - b

----------------------------------------------------------------------------
(* The report: what NamelyReport.fetcher returns *)

S_1 == <<49>>
S_2 == <<50>>
S_3 == <<51>>
S_x7 == <<120, 55>>
Guids == {S_1, S_2}

S_Ann == <<65, 110, 110>>
S_Bob == <<66, 111, 98>>
S_Lee == <<76, 101, 101>>
S_Roy == <<82, 111, 121>>
S_ann_x == <<97, 110, 110, 64, 120>>
S_bob_x == <<98, 111, 98, 64, 120>>


\* a row of the report, pivoted on the column names
Row(g, dept, start, departure) ==
    [profiles_guid |-> g,
     profiles_first_name |-> IF g = S_1 THEN S_Ann ELSE S_Bob,
     profiles_last_name |-> IF g = S_1 THEN S_Lee ELSE S_Roy,
     profiles_email |-> IF g = S_1 THEN S_ann_x ELSE S_bob_x,
     profiles_reports_to_email |-> IF g = S_1 THEN Null ELSE S_ann_x,
     profiles_start_date |-> start,
     profiles_departure_date |-> departure,
     profiles_category_200009617 |-> dept]

\* the rows the report may hold: Ann Lee of Dev, still employed or departed on
\* 2023-03-01, and Bob Roy, who reports to her, of art or of no department
Rows ==
    { Row(S_1, S_Dev, <<2023, 1, 1>>, Null),
      Row(S_1, S_Dev, <<2023, 1, 1>>, <<2023, 3, 1>>),
      Row(S_2, S_art, <<2023, 1, 1>>, Null),
      Row(S_2, Null, <<2023, 1, 1>>, Null) }

\* a null in report.content where a row is expected
NullRow == [null |-> TRUE]

RECURSIVE SeqsUpTo(_, _)
SeqsUpTo(S, n) ==
    IF n = 0 THEN {<<>>}
    ELSE LET shorter == SeqsUpTo(S, n - 1)
         IN  shorter \cup { Append(q, x) : q \in { r \in shorter : Len(r) = n - 1 }, x \in S }

\* report.content: rows with distinct guids, with nulls among them
Contents ==
    { c \in SeqsUpTo(Rows \cup {NullRow}, MaxRows) :
        \A i, j \in 1..Len(c) :
            (i < j /\ c[i] # NullRow /\ c[j] # NullRow)
                => c[i].profiles_guid # c[j].profiles_guid }

\* the outcomes of the fetch: UrlFetchApp.fetch throws; the body is not JSON;
\* the JSON has no reports array; the JSON holds a report
FetchOutcomes ==
    {[kind |-> "fetchThrows"], [kind |-> "malformedJSON"], [kind |-> "noReports"]}
    \cup { [kind |-> "report", content |-> c] : c \in Contents }

----------------------------------------------------------------------------
(* loadData *)

\* lines 491-498: the tenure fields of one employee loaded at instant t
WithTenure(row, t) ==
    LET startDate == DateParse(row.profiles_start_date)
        endDate   == IF Truthy(row.profiles_departure_date)
                     THEN DateParse(row.profiles_departure_date) ELSE t
        diffInMs  == JsSub(endDate, startDate)
    IN  SetProp(SetProp(row, "tenureInMonths", JsFloorDiv(diffInMs, TICKS_PER_MONTH)),
                "tenureInYears", JsFloorDiv(diffInMs, TICKS_PER_YEAR))

\* lines 484-501: the row loop; a null row throws (row[i] of null) after the
\* rows before it were set in employeeData
RECURSIVE InsertRows(_, _, _)
InsertRows(ed, content, t) ==
    IF content = <<>> THEN [map |-> ed, threw |-> FALSE]
    ELSE IF Head(content) = NullRow THEN [map |-> ed, threw |-> TRUE]
    ELSE InsertRows(MapSet(ed, Head(content).profiles_guid, WithTenure(Head(content), t)),
                    Tail(content), t)

\* calculateReportsTo comparing the emails with their case ignored
calculateReportsToAnyCase(ed, employeeId) ==
    IF ~MapHas(ed, employeeId) THEN 0
    ELSE LET employeeEmail == MapGet(ed, employeeId).profiles_email
         IN  Cardinality({ i \in 1..Len(ed) :
                             toLowerCase(ed[i].val.profiles_reports_to_email)
                                = toLowerCase(employeeEmail) })
\* lines 507-520
calculateReportsTo(ed, employeeId) ==
    IF ~MapHas(ed, employeeId) THEN 0
    ELSE LET employeeEmail == MapGet(ed, employeeId).profiles_email
         IN  Cardinality({ i \in 1..Len(ed) :
                             ed[i].val.profiles_reports_to_email = employeeEmail })

\* lines 503-505
WithReportsTo(ed) ==
    [i \in 1..Len(ed) |->
        [key |-> ed[i].key,
         val |-> SetProp(ed[i].val, "reportsToCount",
                         calculateReportsTo(ed, ed[i].val.profiles_guid))]]

\* lines 522-535: employees 1..n of ed bucketed into the department map
RECURSIVE BucketEmployees(_, _, _)
BucketEmployees(deps, ed, n) ==
    IF n = 0 THEN deps
    ELSE LET before       == BucketEmployees(deps, ed, n - 1)
             employee     == ed[n].val
             departmentId == employee.profiles_category_200009617
             withDept     == IF MapHas(before, departmentId) THEN before
                             ELSE MapSet(before, departmentId,
                                         [id |-> departmentId,
                                          name |-> employee.profiles_category_200009617,
                                          departmentHeadcount |-> 0,
                                          totalTenureInMonths |-> 0])
             department   == MapGet(withDept, departmentId)
         IN  MapSet(withDept, departmentId,
                    [department EXCEPT
                        !.departmentHeadcount = JsAdd(@, 1),
                        !.totalTenureInMonths = JsAdd(@, employee.tenureInMonths)])

\* obj.name read as a number: undefined in arithmetic is NaN
NumProp(obj, f) == IF f \in DOMAIN obj THEN obj[f] ELSE NaN

\* lines 537-539
WithAverages(deps) ==
    [i \in 1..Len(deps) |->
        [key |-> deps[i].key,
         val |-> SetProp(deps[i].val, "averageTenureInMonths",
                         JsRoundDiv(NumProp(deps[i].val, "totalTenureInMonths"),
                                    NumProp(deps[i].val, "departmentHeadcount")))]]

\* lines 542-545
RECURSIVE TotalHeadcount(_, _)
TotalHeadcount(deps, n) ==
    IF n = 0 THEN 0
    ELSE JsAdd(TotalHeadcount(deps, n - 1), NumProp(deps[n].val, "departmentHeadcount"))

\* lines 546-549
WithAll(deps) ==
    MapSet(deps, S_all,
           [departmentHeadcount |-> TotalHeadcount(deps, Len(deps)),
            name |-> S_AllDepartments])

\* lines 474-564: the maps loadData() leaves and whether it returned true,
\* for what the fetcher returned
loadDataResult(ed, deps, t, out) ==
    IF out.kind # "report"
    THEN [employeeData |-> ed, departments |-> deps, ok |-> FALSE]
    ELSE LET ins == InsertRows(ed, out.content, t)
         IN  IF ins.threw
             THEN [employeeData |-> ins.map, departments |-> deps, ok |-> FALSE]
             ELSE LET ed2 == WithReportsTo(ins.map)
                  IN  [employeeData |-> ed2,
                       departments |-> WithAll(WithAverages(BucketEmployees(deps, ed2, Len(ed2)))),
                       ok |-> TRUE]

\* lines 555-564 and 553: what loadData() returns
loadDataReturn(ok) ==
    IF ok THEN [kind |-> "true"] ELSE [kind |-> "error", status |-> 500]

----------------------------------------------------------------------------
(* The query functions.  A request e is [pathInfo, parameter]; a parameter  *)
(* the request does not carry is a field e.parameter does not have.         *)

\* lines 585-604 and 665-684: the response object of one employee
EmployeeView(employee) ==
    LET base == [id |-> employee.profiles_guid,
                 firstName |-> employee.profiles_first_name,
                 lastName |-> employee.profiles_last_name,
                 email |-> employee.profiles_email,
                 department |-> [id |-> employee.profiles_category_200009617,
                                 name |-> employee.profiles_category_200009617],
                 reportsToEmail |-> employee.profiles_reports_to_email,
                 startDate |-> employee.profiles_start_date,
                 tenureInMonths |-> employee.tenureInMonths,
                 tenureInYears |-> employee.tenureInYears]
    IN  IF "reportsToCount" \in DOMAIN employee
        THEN SetProp(base, "reportsToCount", employee.reportsToCount)
        ELSE base

\* lines 615-627
getDirectReports(ed, managerEmail) ==
    LET isReport(employee) ==
            /\ employee.profiles_reports_to_email = managerEmail
            /\ ~Truthy(employee.profiles_departure_date)
        directReports == SelectSeq(MapValues(ed), isReport)
    IN  [i \in 1..Len(directReports) |->
            [id |-> directReports[i].profiles_guid,
             firstName |-> directReports[i].profiles_first_name,
             lastName |-> directReports[i].profiles_last_name]]

\* the status of line 580
NotFoundStatus == 404
\* getEmployee without the check of line 575: reading a property of undefined throws
getEmployeeUnchecked(ed, e) ==
    LET employeeId == Prop(e.parameter, "employeeId")
    IN  IF ~MapHas(ed, employeeId) THEN [threw |-> "TypeError"]
        ELSE [employee |-> EmployeeView(MapGet(ed, employeeId))]
\* lines 569-611
getEmployee(ed, e) ==
    LET employeeId == Prop(e.parameter, "employeeId")
        includeDirectReports ==
            IF Truthy(Prop(e.parameter, "includeDirectReports"))
            THEN e.parameter.includeDirectReports ELSE S_false
    IN  IF ~MapHas(ed, employeeId)
        THEN [error |-> "Employee not found with ID", employeeId |-> employeeId,
              status |-> NotFoundStatus]
        ELSE LET employee == MapGet(ed, employeeId)
                 view == EmployeeView(employee)
             IN  [employee |->
                    IF includeDirectReports = S_true
                    THEN SetProp(view, "directReports",
                                 getDirectReports(ed, employee.profiles_email))
                    ELSE view]

\* String.prototype.includes
includes(s, part) ==
    \E i \in 0..(Len(s) - Len(part)) : SubSeq(s, i + 1, i + Len(part)) = part

\* lines 632-686, at instant t
getEmployees(ed, e, t) ==
    LET firstName == Prop(e.parameter, "firstName")
        lastName == Prop(e.parameter, "lastName")
        emailPrefix == Prop(e.parameter, "emailPrefix")
        departmentId == Prop(e.parameter, "departmentId")
        recentHire == Prop(e.parameter, "recentHire")
        includePastEmployees ==
            IF Truthy(Prop(e.parameter, "includePastEmployees"))
            THEN e.parameter.includePastEmployees ELSE S_false
        \* toLowerCase of null or undefined throws
        throws(employee) ==
            \/ Truthy(firstName) /\ employee.profiles_first_name \in {Null, Undefined}
            \/ Truthy(lastName) /\ employee.profiles_last_name \in {Null, Undefined}
            \/ Truthy(emailPrefix) /\ employee.profiles_email \in {Null, Undefined}
        matches(employee) ==
            LET timeDiff == JsSub(t, DateParse(employee.profiles_start_date))
                diffInDays == JsFloorDiv(timeDiff, TICKS_PER_DAY)
            IN  /\ Truthy(firstName) =>
                     includes(toLowerCase(employee.profiles_first_name), toLowerCase(firstName))
                /\ Truthy(lastName) =>
                     includes(toLowerCase(employee.profiles_last_name), toLowerCase(lastName))
                /\ Truthy(emailPrefix) =>
                     startsWith(toLowerCase(employee.profiles_email), toLowerCase(emailPrefix))
                /\ Truthy(departmentId) =>
                     employee.profiles_category_200009617 = departmentId
                /\ recentHire = S_true => ~(diffInDays # NaN /\ diffInDays > 7)
                /\ ~(includePastEmployees # S_true /\ Truthy(employee.profiles_departure_date))
        all == MapValues(ed)
    IN  IF \E i \in 1..Len(all) : throws(all[i])
        THEN [threw |-> "TypeError"]
        ELSE LET matchingEmployees == SelectSeq(all, matches)
             IN  [employees |-> [i \in 1..Len(matchingEmployees) |->
                                    EmployeeView(matchingEmployees[i])]]

\* the employees a department query counts: lines 698-705 and 877-884
Counted(ed, departmentId, includePast) ==
    LET counts(employee) ==
            /\ employee.profiles_category_200009617 = departmentId
            /\ (includePast \/ ~Truthy(employee.profiles_departure_date))
    IN  SelectSeq(MapValues(ed), counts)

RECURSIVE SumTenure(_)
SumTenure(employees) ==
    IF employees = <<>> THEN 0
    ELSE JsAdd(SumTenure(SubSeq(employees, 1, Len(employees) - 1)),
               employees[Len(employees)].tenureInMonths)

\* lines 690-716
getDepartment(ed, e) ==
    LET departmentId == Prop(e.parameter, "departmentId")
        includePastEmployees ==
            IF Truthy(Prop(e.parameter, "includePastEmployees"))
            THEN e.parameter.includePastEmployees ELSE S_false
        counted == Counted(ed, departmentId, includePastEmployees = S_true)
    IN  [department |->
            [id |-> departmentId, name |-> departmentId,
             departmentHeadcount |-> Len(counted),
             averageTenureInMonths |-> JsRoundDiv(SumTenure(counted), Len(counted))]]

\* Array.prototype.sort with the comparator of line 752: a stable sort of the
\* departments by name
RECURSIVE SortByName(_)
SortByName(ds) ==
    IF ds = <<>> THEN <<>>
    ELSE LET n      == Len(ds)
             x      == ds[n]
             sorted == SortByName(SubSeq(ds, 1, n - 1))
             \* x goes behind every element that does not sort after it
             k      == Cardinality({ i \in 1..Len(sorted) :
                                       \A j \in 1..i : localeCompare(sorted[j].name, x.name) <= 0 })
         IN  SubSeq(sorted, 1, k) \o <<x>> \o SubSeq(sorted, k + 1, Len(sorted))

\* lines 729-742: the headcount getDepartments stores in a department record
RecountedHeadcount(ed, deps, department, includePastEmployees) ==
    LET counts(employee) ==
            /\ (includePastEmployees \/ ~Truthy(employee.profiles_departure_date))
            /\ \E i \in 1..Len(deps) :
                    Prop(deps[i].val, "id") = employee.profiles_category_200009617
            /\ employee.profiles_category_200009617 = Prop(department, "id")
    IN  Len(SelectSeq(MapValues(ed), counts))

\* lines 739-742: the department map getDepartments leaves
getDepartmentsMap(ed, deps, e) ==
    LET includePastEmployees == Prop(e.parameter, "includePastEmployees") = S_true
    IN  [i \in 1..Len(deps) |->
            [key |-> deps[i].key,
             val |-> SetProp(deps[i].val, "departmentHeadcount",
                             RecountedHeadcount(ed, deps, deps[i].val, includePastEmployees))]]

\* the filter of line 747 with >= for >
HasHeadcountOrNone(department) == department.departmentHeadcount >= 0
\* lines 744-748
HasHeadcount(department) == department.departmentHeadcount > 0

\* lines 720-775: what getDepartments returns
getDepartments(ed, deps, e) ==
    LET includePastEmployees == Prop(e.parameter, "includePastEmployees") = S_true
        departmentData == MapValues(getDepartmentsMap(ed, deps, e))
        filteredDepartments ==
            IF includePastEmployees THEN departmentData
            ELSE SelectSeq(departmentData, HasHeadcount)
        hasName(department) == Truthy(Prop(department, "name"))
        validDepartments == SortByName(SelectSeq(filteredDepartments, hasName))
        view(department) ==
            LET base == [id |-> Prop(department, "id"),
                         name |-> department.name,
                         departmentHeadcount |-> department.departmentHeadcount]
            IN  IF "averageTenureInMonths" \in DOMAIN department
                THEN SetProp(base, "averageTenureInMonths", department.averageTenureInMonths)
                ELSE base
        departmentsResponse == [i \in 1..Len(validDepartments) |-> view(validDepartments[i])]
    IN  IF Len(departmentsResponse) = 0
        THEN [error |-> IF includePastEmployees THEN "No departments found."
                        ELSE "No departments found with active employees.",
              status |-> 404]
        ELSE [departments |-> departmentsResponse]

\* lines 853-895
getDepartmentByName(ed, deps, e) ==
    LET departmentNameOrId == Prop(e.parameter, "departmentName")
        includePastEmployees ==
            IF Truthy(Prop(e.parameter, "includePastEmployees"))
            THEN e.parameter.includePastEmployees ELSE S_false
        isMatch(dept) ==
            \/ /\ Truthy(Prop(dept, "name"))
               /\ toLowerCase(dept.name) = toLowerCase(departmentNameOrId)
            \/ Prop(dept, "id") = departmentNameOrId
        found == SelectSeq(MapValues(deps), isMatch)
        \* toLowerCase of an undefined argument throws at the first named record
        throws ==
            /\ departmentNameOrId \in {Undefined, Null}
            /\ \E i \in 1..Len(deps) :
                  /\ Truthy(Prop(deps[i].val, "name"))
                  /\ \A j \in 1..(i - 1) : Prop(deps[j].val, "id") # departmentNameOrId
    IN  IF throws THEN [threw |-> "TypeError"]
        ELSE IF found = <<>>
        THEN [error |-> "Department not found with name or ID", status |-> 404]
        ELSE LET department == found[1]
                 counted == Counted(ed, Prop(department, "id"), includePastEmployees = S_true)
             IN  [department |->
                    [id |-> Prop(department, "id"),
                     name |-> department.name,
                     departmentHeadcount |-> Len(counted),
                     averageTenureInMonths |->
                        IF Len(counted) > 0 THEN JsRoundDiv(SumTenure(counted), Len(counted))
                        ELSE 0]]

----------------------------------------------------------------------------
(* The router *)

\* the test of line 793 without its second disjunct
IsStaleWhenEmpty(ed, prop, t) == Len(ed) = 0
\* the test of line 793 with >= for >
IsStaleAtWindow(ed, prop, t) ==
    \/ Len(ed) = 0
    \/ prop = NoProperty
    \/ t - DateFromString(prop) >= REFRESH_WINDOW
\* lines 792-793: the cache is to be reloaded before the request is served
IsStale(ed, prop, t) ==
    \/ Len(ed) = 0
    \* new Date(null) is 1970-01-01, more than a day before every instant of the model
    \/ prop = NoProperty
    \/ t - DateFromString(prop) > REFRESH_WINDOW

\* lines 797-852: the response to request e, on the maps as the load (if any) left them
Route(ed, deps, e, t) ==
    LET path == Prop(e, "pathInfo")
        S_employeesSlash == S_employees \o S_slash
        S_departmentsSlash == S_departments \o S_slash
        isEmployee == startsWith(path, S_employeesSlash)
        isDepartment == ~isEmployee /\ startsWith(path, S_departmentsSlash)
        employeeId == substring(path, Len(S_employeesSlash))
        departmentName == substring(path, Len(S_departmentsSlash))
        caught(r) == IF "threw" \in DOMAIN r
                     THEN [error |-> r.threw, status |-> 500] ELSE r
    IN  IF ~Truthy(path)
        THEN [error |-> "Invalid request: Missing path information.", status |-> 400]
        ELSE IF isEmployee
        THEN IF ~Truthy(employeeId) \/ isNaN(employeeId)
             THEN [error |-> "Invalid employeeId", status |-> 500]
             ELSE getEmployee(ed, [e EXCEPT !.parameter = SetProp(@, "employeeId", employeeId)])
        ELSE IF isDepartment
        THEN IF ~Truthy(departmentName)
             THEN [error |-> "Invalid departmentName", status |-> 500]
             ELSE caught(getDepartmentByName(ed, deps,
                            [e EXCEPT !.parameter = SetProp(@, "departmentName", departmentName)]))
        ELSE IF path = S_employees THEN caught(getEmployees(ed, e, t))
        ELSE IF path = S_departments THEN getDepartments(ed, deps, e)
        ELSE [error |-> "Invalid endpoint", status |-> 500]

\* the department map the routed function leaves
RouteMap(ed, deps, e) ==
    IF Prop(e, "pathInfo") = S_departments THEN getDepartmentsMap(ed, deps, e) ELSE deps

----------------------------------------------------------------------------
(* Requests *)

S_zzz == <<122, 122, 122>>
S_dev == toLowerCase(S_Dev)
S_an == <<97, 110>>

NoParameters == [x \in {} |-> Undefined]
IncludePastValues == {NoParameters, [includePastEmployees |-> S_true]}

EmployeeIds == {S_1, S_2, S_3}
GetEmployeeRequests ==
    { [parameter |-> [employeeId |-> id]] : id \in EmployeeIds }
    \cup {[parameter |-> [employeeId |-> S_1, includeDirectReports |-> S_true]]}
GetEmployeesRequests ==
    { [parameter |-> q] :
        q \in {NoParameters, [departmentId |-> S_Dev, includePastEmployees |-> S_true]} }
GetDepartmentRequests ==
    { [parameter |-> q] :
        q \in {[departmentId |-> S_Dev], [departmentId |-> S_zzz]} }
GetDepartmentsRequests ==
    { [parameter |-> q] :
        q \in IncludePastValues \cup {[includePastEmployees |-> S_false]} }
GetDepartmentByNameRequests ==
    { [parameter |-> q] :
        q \in {[departmentName |-> S_dev],
               [departmentName |-> S_dev, includePastEmployees |-> S_true],
               [departmentName |-> S_zzz]} }

\* the paths of the requests doGet is given; Undefined is a request without pathInfo
Paths ==
    {Undefined, <<>>, S_employees, S_departments, S_zzz,
     S_employees \o S_slash, S_departments \o S_slash}
    \cup { S_employees \o S_slash \o id : id \in {S_1, S_3, S_x7} }
    \cup { S_departments \o S_slash \o d : d \in {S_dev, S_zzz} }
Requests ==
    { IF p = Undefined THEN [parameter |-> NoParameters]
      ELSE [pathInfo |-> p, parameter |-> NoParameters] : p \in Paths }
    \cup {[pathInfo |-> S_departments, parameter |-> [includePastEmployees |-> S_true]]}

\* what the fetcher returns to a load that doGet triggers
RouterOutcomes ==
    {[kind |-> "fetchThrows"],
     [kind |-> "report", content |-> <<>>],
     [kind |-> "report", content |-> <<Row(S_1, S_Dev, <<2023, 1, 1>>, Null),
                                       Row(S_2, S_art, <<2023, 1, 1>>, Null)>>],
     [kind |-> "report", content |-> <<Row(S_1, S_Dev, <<2023, 1, 1>>, Null), NullRow>>]}

----------------------------------------------------------------------------
(* The cart module (src/firing-worksheet-web.js).  Prices are in cents.  The *)
(* services of the store (wix-ecom-backend, wix-media-backend) answer or     *)
(* throw; faults names, for the main path and for the fallback, the first    *)
(* service call that throws, if any.                                         *)

RECURSIVE Digits(_)
Digits(n) == IF n < 10 THEN <<48 + n>> ELSE Append(Digits(n \div 10), 48 + (n % 10))
\* Number.prototype.toString of an amount: "4.32", "4.5", "4"
toString(cents) ==
    LET frac == cents % 100
    IN  Digits(cents \div 100)
        \o (IF frac = 0 THEN <<>>
            ELSE IF frac % 10 = 0 THEN <<46, 48 + (frac \div 10)>>
            ELSE <<46, 48 + (frac \div 10), 48 + (frac % 10)>>)

\* no current cart; a worksheetData that is no array
NoCart == [none |-> TRUE]
NotAnArray == <<[null |-> TRUE]>>

\* the rows a worksheet submits: 3 pieces of 4 x 2 x 6 for 4.32, a piece with
\* a photo, and a row without a price
WorksheetItems ==
    {[_id |-> "row-1", firingType |-> "Bisque", price |-> 432, quantity |-> 3,
      height |-> 4, width |-> 2, length |-> 6],
     [_id |-> "row-2", firingType |-> "Glaze", price |-> 150, quantity |-> 1,
      height |-> 5, width |-> 5, length |-> 2, photoBuffer |-> "iVBOR"],
     [_id |-> "row-3", firingType |-> "Bisque", quantity |-> 1,
      height |-> 1, width |-> 1, length |-> 1]}
Worksheets ==
    {NotAnArray, <<>>}
    \cup { <<item>> : item \in WorksheetItems }
    \cup { <<a, b>> : a \in { i \in WorksheetItems : i._id = "row-1" },
                      b \in { i \in WorksheetItems : i._id = "row-2" } }

\* lines 90-141: the custom line items of the rows, or the error thrown
processWorksheetData(worksheetData, uploadThrows) ==
    IF worksheetData = NotAnArray THEN [threw |-> "TypeError"]
    ELSE IF \E i \in 1..Len(worksheetData) :
               "photoBuffer" \in DOMAIN worksheetData[i] /\ uploadThrows
    THEN [threw |-> "upload"]
    ELSE IF \E i \in 1..Len(worksheetData) :
               ~({"price", "height", "width", "length"} \subseteq DOMAIN worksheetData[i])
    THEN [threw |-> "TypeError"]
    ELSE [customLineItems |->
            [i \in 1..Len(worksheetData) |->
                LET item == worksheetData[i]
                IN  [itemType |-> [custom |-> "custom"],
                     media |-> IF "photoBuffer" \in DOMAIN item THEN "fileUrl" ELSE "",
                     price |-> toString(item.price),
                     productName |-> item.firingType,
                     catalogItemId |-> item._id,
                     options |-> [Height |-> toString(100 * item.height),
                                  Width |-> toString(100 * item.width),
                                  Length |-> toString(100 * item.length)],
                     quantity |-> item.quantity]]]

\* the store gives each line item it takes into a cart an _id not used in it
RECURSIVE WithIds(_, _)
WithIds(lineItems, items) ==
    IF items = <<>> THEN lineItems
    ELSE LET used == { lineItems[i]._id : i \in 1..Len(lineItems) }
             id   == CHOOSE n \in 1..(Len(lineItems) + 1) : n \notin used
         IN  WithIds(Append(lineItems, SetProp(Head(items), "_id", id)), Tail(items))

\* cart.createCart({ customLineItems })
createCart(customLineItems) == [lineItems |-> WithIds(<<>>, customLineItems)]

\* lines 64-67
IsFiringItem(item) == "custom" \in DOMAIN item.itemType /\ item.itemType.custom = "custom"
FiringItemIds(existingCart) ==
    LET firingItems == SelectSeq(existingCart.lineItems, IsFiringItem)
    IN  { firingItems[i]._id : i \in 1..Len(firingItems) }

\* currentCart.removeLineItemsFromCurrentCart(ids)
removeLineItemsFromCurrentCart(current, ids) ==
    LET kept(item) == item._id \notin ids
    IN  [lineItems |-> SelectSeq(current.lineItems, kept)]
\* currentCart.addToCurrentCart({ customLineItems })
addToCurrentCart(current, customLineItems) ==
    [lineItems |-> WithIds(current.lineItems, customLineItems)]

\* a call of a service, for the log of an addWorksheetToCart call
Called(fn, path, ok) == [fn |-> fn, path |-> path, ok |-> ok]

\* handleFallbackCartCreation with a second createCart after one that failed
handleFallbackCartCreationAgain(worksheetData, fault) ==
    LET items == processWorksheetData(worksheetData, fault = "uploadImage")
    IN  IF "threw" \in DOMAIN items
        THEN [threw |-> "Failed to create cart during fallback", created |-> <<>>,
              log |-> <<Called("processWorksheetData", "fallback", FALSE)>>]
        ELSE [returned |-> createCart(items.customLineItems),
              created |-> <<createCart(items.customLineItems)>>,
              log |-> <<Called("processWorksheetData", "fallback", TRUE)>>
                      \o (IF fault = "createCart"
                          THEN <<Called("createCart", "fallback", FALSE)>> ELSE <<>>)
                      \o <<Called("createCart", "fallback", TRUE)>>]
\* lines 148-159
handleFallbackCartCreation(worksheetData, fault) ==
    LET items == processWorksheetData(worksheetData, fault = "uploadImage")
    IN  IF "threw" \in DOMAIN items
        THEN [threw |-> "Failed to create cart during fallback", created |-> <<>>,
              log |-> <<Called("processWorksheetData", "fallback", FALSE)>>]
        ELSE IF fault = "createCart"
        THEN [threw |-> "Failed to create cart during fallback", created |-> <<>>,
              log |-> <<Called("processWorksheetData", "fallback", TRUE),
                        Called("createCart", "fallback", FALSE)>>]
        ELSE [returned |-> createCart(items.customLineItems),
              created |-> <<createCart(items.customLineItems)>>,
              log |-> <<Called("processWorksheetData", "fallback", TRUE),
                        Called("createCart", "fallback", TRUE)>>]

\* lines 51-76: the main path, up to its return or to the error it throws;
\* current is the visitor's cart as the path leaves it
MainPath(current, worksheetData, fault) ==
    LET items == processWorksheetData(worksheetData, fault = "uploadImage")
        read == <<Called("getCurrentCart", "main", TRUE)>>
        processed == read \o <<Called("processWorksheetData", "main", TRUE)>>
        ids == FiringItemIds(current)
        removed == IF ids = {} THEN current ELSE removeLineItemsFromCurrentCart(current, ids)
        afterRemove ==
            IF ids = {} THEN processed
            ELSE processed \o <<Called("removeLineItemsFromCurrentCart", "main", TRUE)>>
    IN  IF fault = "getCurrentCart"
        THEN [failed |-> TRUE, current |-> current, created |-> <<>>,
              log |-> <<Called("getCurrentCart", "main", FALSE)>>]
        ELSE IF "threw" \in DOMAIN items
        THEN [failed |-> TRUE, current |-> current, created |-> <<>>,
              log |-> read \o <<Called("processWorksheetData", "main", FALSE)>>]
        ELSE IF current = NoCart
        THEN IF fault = "createCart"
             THEN [failed |-> TRUE, current |-> current, created |-> <<>>,
                   log |-> processed \o <<Called("createCart", "main", FALSE)>>]
             ELSE [failed |-> FALSE, current |-> current,
                   created |-> <<createCart(items.customLineItems)>>,
                   returned |-> createCart(items.customLineItems),
                   log |-> processed \o <<Called("createCart", "main", TRUE)>>]
        ELSE IF ids # {} /\ fault = "removeLineItemsFromCurrentCart"
        THEN [failed |-> TRUE, current |-> current, created |-> <<>>,
              log |-> processed \o <<Called("removeLineItemsFromCurrentCart", "main", FALSE)>>]
        ELSE IF fault = "addToCurrentCart"
        THEN [failed |-> TRUE, current |-> removed, created |-> <<>>,
              log |-> afterRemove \o <<Called("addToCurrentCart", "main", FALSE)>>]
        ELSE [failed |-> FALSE, created |-> <<>>,
              current |-> addToCurrentCart(removed, items.customLineItems),
              returned |-> addToCurrentCart(removed, items.customLineItems),
              log |-> afterRemove \o <<Called("addToCurrentCart", "main", TRUE)>>]

\* lines 50-83
generateCustomLineItemsFromWorksheet(current, worksheetData, mainFault, fallbackFault) ==
    LET main == MainPath(current, worksheetData, mainFault)
        fallback == handleFallbackCartCreation(worksheetData, fallbackFault)
    IN  IF ~main.failed
        THEN [current |-> main.current, created |-> main.created, log |-> main.log,
              returned |-> main.returned]
        ELSE IF "threw" \in DOMAIN fallback
        THEN [current |-> main.current, created |-> <<>>,
              log |-> main.log \o fallback.log, threw |-> fallback.threw]
        ELSE [current |-> main.current, created |-> fallback.created,
              log |-> main.log \o fallback.log, returned |-> fallback.returned]

\* lines 13-24: the store and the outcome of the call
addWorksheetToCart(current, worksheetData, mainFault, fallbackFault) ==
    LET r == generateCustomLineItemsFromWorksheet(current, worksheetData,
                                                  mainFault, fallbackFault)
    IN  [current |-> r.current,
         created |-> r.created,
         call |-> IF "threw" \in DOMAIN r
                  THEN [fn |-> "addWorksheetToCart", worksheetData |-> worksheetData,
                        log |-> r.log, threw |-> "Failed to add worksheet to cart"]
                  ELSE [fn |-> "addWorksheetToCart", worksheetData |-> worksheetData,
                        log |-> r.log, returned |-> r.returned]]

MainFaults ==
    {"none", "getCurrentCart", "uploadImage", "createCart",
     "removeLineItemsFromCurrentCart", "addToCurrentCart"}
FallbackFaults == {"none", "uploadImage", "createCart"}

\* a product of the store's catalog in a cart
CatalogItem == [_id |-> 1, itemType |-> [preset |-> "PHYSICAL"], quantity |-> 1]
\* the carts a visitor may have when the worksheet is submitted: none, one
\* with a product, one with a product and the firing items of an earlier
\* submission
InitialCarts ==
    {NoCart,
     [lineItems |-> <<CatalogItem>>],
     addToCurrentCart([lineItems |-> <<CatalogItem>>],
                      processWorksheetData(
                          <<CHOOSE i \in WorksheetItems : i._id = "row-1">>, FALSE).customLineItems)}

\* the store before any call
NoShop == [current |-> NoCart, created |-> <<>>, call |-> [fn |-> "none"]]

----------------------------------------------------------------------------
(* The firing worksheet (src/firing-worksheet.js, lines 1-358).  Amounts are *)
(* in cents; a cell that shows an amount holds the text of the amount        *)
(* ("$1,234.56") as its code units.                                          *)

\* lines 24-29, in cents
FIRING_OPTIONS ==
    [type \in {"Bisque", "Slipcast Bisque", "Oxidation 6", "Reduction 10"} |->
        IF type = "Slipcast Bisque" THEN 6 ELSE 4]
\* lines 30-31
rushJobDays == 3
rushJobPremium == 25
\* lines 7-8
MAX_DIMENSION == 55
MAX_QUANTITY == 120

\* the digits of n in groups of three: 1234567 is "1,234,567"
RECURSIVE Grouped(_)
Grouped(n) ==
    IF n < 1000 THEN Digits(n)
    ELSE Grouped(n \div 1000)
         \o <<44, 48 + ((n \div 100) % 10), 48 + ((n \div 10) % 10), 48 + (n % 10)>>
\* USDformatter.format of an amount of whole cents
formatUSD(cents) ==
    <<36>> \o Grouped(cents \div 100) \o <<46, 48 + ((cents \div 10) % 10), 48 + (cents % 10)>>

\* the number a sequence of digits names
RECURSIVE DigitsValue(_)
DigitsValue(d) ==
    IF d = <<>> THEN 0 ELSE 10 * DigitsValue(SubSeq(d, 1, Len(d) - 1)) + (d[Len(d)] - 48)
\* the longest prefix of s made of digits
RECURSIVE DigitPrefix(_)
DigitPrefix(s) ==
    IF s = <<>> \/ s[1] \notin 48..57 THEN <<>> ELSE <<s[1]>> \o DigitPrefix(Tail(s))

\* parseInt(s)
parseInt(s) ==
    LET negative == s # <<>> /\ s[1] = 45
        body == IF s # <<>> /\ s[1] \in {43, 45} THEN Tail(s) ELSE s
        digits == DigitPrefix(body)
    IN  IF digits = <<>> THEN NaN
        ELSE IF negative THEN 0 - DigitsValue(digits) ELSE DigitsValue(digits)

\* parseFloat(text.replace(/[^0-9.-]+/g, '')) of the text of an amount, in cents
parseAmount(text) ==
    LET isNumeric(c) == c \in 48..57 \/ c \in {45, 46}
        kept == SelectSeq(text, isNumeric)
        whole == DigitPrefix(kept)
        rest == SubSeq(kept, Len(whole) + 1, Len(kept))
        frac == IF rest # <<>> /\ rest[1] = 46 THEN DigitPrefix(Tail(rest)) ELSE <<>>
        hundredths == SubSeq(frac \o <<48, 48>>, 1, 2)
    IN  IF whole = <<>> THEN NaN
        ELSE 100 * DigitsValue(whole) + DigitsValue(hundredths)

\* x || 0 for a number x
OrZero(x) == IF x = NaN THEN 0 ELSE x

\* the quotient cut at the decimal point, for a >= 0 and b > 0
JsTruncDiv(a, b) == a \div b

\* Math.ceil(a / b) for b > 0
JsCeilDiv(a, b) == 0 - ((0 - a) \div b)

\* lines 202-209: the error message for the value of a number input, or
\* "null" for none
validateInput(value) ==
    LET num == parseInt(value)
    IN  IF value = <<>> THEN "Field required"
        ELSE IF num = NaN THEN "Must be a number"
        ELSE IF num <= 0 THEN "Must be positive"
        ELSE IF num > MAX_DIMENSION THEN "Max 55"
        ELSE "null"

\* lines 211-287: the row addRow() builds, before it calculates its values
NewRow ==
    [firingType |-> "Bisque",
     unitCost |-> formatUSD(FIRING_OPTIONS["Bisque"]),
     height |-> <<49>>, width |-> <<49>>, length |-> <<49>>,
     volume |-> 1,
     quantity |-> <<49>>,
     price |-> formatUSD(0),
     dueDate |-> <<>>,
     errors |-> {}]

\* lines 289-309: the row with its volume and price cells recalculated at
\* instant t.  price * 1.25 can fall on half a cent, where the binary
\* fraction the multiplication yields decides the rounding: halfUp says which
\* way it went.
calculateRowValues(row, t, halfUp) ==
    LET height == OrZero(parseInt(row.height))
        width == OrZero(parseInt(row.width))
        length == OrZero(parseInt(row.length))
        quantity == OrZero(parseInt(row.quantity))
        volume == height * width * length
        unitCost == OrZero(parseAmount(row.unitCost))
        price == volume * quantity * unitCost
        daysDiff == JsCeilDiv(DateParse(row.dueDate) - t, TICKS_PER_DAY)
        rush == row.dueDate # <<>> /\ daysDiff <= rushJobDays
        scaled == price * (100 + rushJobPremium)
        rounded == IF scaled % 100 = 50 THEN (IF halfUp THEN scaled \div 100 + 1
                                               ELSE scaled \div 100)
                   ELSE (scaled + 50) \div 100
    IN  [row EXCEPT !.volume = volume,
                    !.price = formatUSD(IF rush THEN rounded ELSE price)]

\* lines 311-320: the text updateTotalCost() writes into the total price cell
RECURSIVE SumOfPrices(_)
SumOfPrices(rows) ==
    IF rows = <<>> THEN 0
    ELSE SumOfPrices(SubSeq(rows, 1, Len(rows) - 1))
         + OrZero(parseAmount(rows[Len(rows)].price))
updateTotalCost(rows, shown) == formatUSD(SumOfPrices(rows))

\* the code units of the name of a firing type
TypeText(type) ==
    CASE type = "Bisque" -> <<66, 105, 115, 113, 117, 101>>
      [] type = "Slipcast Bisque" ->
            <<83, 108, 105, 112, 99, 97, 115, 116, 32, 66, 105, 115, 113, 117, 101>>
      [] type = "Oxidation 6" ->
            <<79, 120, 105, 100, 97, 116, 105, 111, 110, 32, 8710, 32, 54>>
      [] type = "Reduction 10" ->
            <<82, 101, 100, 117, 99, 116, 105, 111, 110, 32, 8710, 32, 49, 48>>
\* `${n}` for the result of a parseInt
NumberText(n) ==
    IF n = NaN THEN <<78, 97, 78>>
    ELSE IF n < 0 THEN <<45>> \o Digits(0 - n)
    ELSE Digits(n)

\* lines 350-354: the hash after the code units of rawID, a 32-bit integer
\* kept as its two 16-bit halves; (hash << 5) - hash + c is 31 * hash + c
RECURSIVE HashOf(_)
HashOf(rawID) ==
    IF rawID = <<>> THEN [hi |-> 0, lo |-> 0]
    ELSE LET hash == HashOf(SubSeq(rawID, 1, Len(rawID) - 1))
             lo == 31 * hash.lo + rawID[Len(rawID)]
             hi == 31 * hash.hi + lo \div 65536
         IN  [hi |-> hi % 65536, lo |-> lo % 65536]
\* lines 347-356: the digits of Math.abs(hash)
generateProductID(firingType, height, width, length) ==
    LET rawID == TypeText(firingType) \o <<45>> \o NumberText(height) \o <<45>>
                 \o NumberText(width) \o <<45>> \o NumberText(length)
        hash == HashOf(rawID)
    IN  IF hash.hi < 32768 THEN Digits(65536 * hash.hi + hash.lo)
        ELSE IF hash.hi = 32768 /\ hash.lo = 0
        THEN <<50, 49, 52, 55, 52, 56, 51, 54, 52, 56>>
        ELSE Digits(65536 * (65535 - hash.hi) + (65536 - hash.lo))

\* lines 323-340: the data submitWorksheet() reads from the rows
WorksheetDataOf(rows) ==
    [i \in 1..Len(rows) |->
        LET row == rows[i]
        IN  [_id |-> generateProductID(row.firingType, parseInt(row.height),
                                       parseInt(row.width), parseInt(row.length)),
             firingType |-> row.firingType,
             unitCost |-> parseAmount(row.unitCost),
             height |-> parseInt(row.height),
             width |-> parseInt(row.width),
             length |-> parseInt(row.length),
             volume |-> row.volume,
             quantity |-> parseInt(row.quantity),
             price |-> parseAmount(row.price),
             dueDate |-> IF row.dueDate = <<>> THEN Null ELSE row.dueDate,
             specialDirections |-> Null]]

\* the element after its constructor: no rows yet (lines 2-50); the template
\* of connectedCallback shows $0.00 in the total price cell (line 138)
NoSheet ==
    [connected |-> FALSE, rows |-> <<>>, total |-> formatUSD(0), changes |-> 0,
     event |-> "none", data |-> <<>>]

----------------------------------------------------------------------------
(* The firing worksheet of src/unnamed/part_000 (lines 1169-1499): no due    *)
(* dates, and amounts read with parseFloat(text.replace("$", "")).           *)

\* text.replace("$", ""): the text without its first dollar sign
RECURSIVE WithoutDollar(_)
WithoutDollar(text) ==
    IF text = <<>> THEN <<>>
    ELSE IF Head(text) = 36 THEN Tail(text)
    ELSE <<Head(text)>> \o WithoutDollar(Tail(text))
\* parseFloat(text.replace("$", "")) of the text of an amount, in cents: the
\* number ends at the first comma
parseDollar(text) ==
    LET kept == WithoutDollar(text)
        whole == DigitPrefix(kept)
        rest == SubSeq(kept, Len(whole) + 1, Len(kept))
        frac == IF rest # <<>> /\ rest[1] = 46 THEN DigitPrefix(Tail(rest)) ELSE <<>>
        hundredths == SubSeq(frac \o <<48, 48>>, 1, 2)
    IN  IF whole = <<>> THEN NaN
        ELSE 100 * DigitsValue(whole) + DigitsValue(hundredths)

\* lines 1442-1451: the error message for the value of an input, "" for none
isValidInput(value) ==
    LET parsedValue == parseInt(value)
    IN  IF parsedValue = NaN THEN "Please enter a number."
        ELSE IF parsedValue <= 0 \/ parsedValue > 120
        THEN "Please enter a number between 1 and 120."
        ELSE ""

\* lines 1429-1440: the text updateTotalCost() writes into the total price cell
RECURSIVE totalCost(_)
totalCost(rows) ==
    IF rows = <<>> THEN 0
    ELSE totalCost(SubSeq(rows, 1, Len(rows) - 1))
         + OrZero(parseDollar(rows[Len(rows)].price))
updateTotalCostOfTable(rows) == formatUSD(totalCost(rows))

\* lines 1411-1427, without the call of updateTotalCost: the row with its
\* volume and price cells recalculated
calculateRowValuesOfTable(row) ==
    LET height == OrZero(parseInt(row.height))
        width == OrZero(parseInt(row.width))
        length == OrZero(parseInt(row.length))
        quantity == OrZero(parseInt(row.quantity))
        volume == height * width * length
        unitCost == OrZero(parseDollar(row.unitCost))
        price == volume * quantity * unitCost
    IN  [row EXCEPT !.volume = volume, !.price = formatUSD(price)]

\* lines 1342-1409: the row createRow() returns
createRow ==
    calculateRowValuesOfTable(
        [firingType |-> "Bisque",
         unitCost |-> formatUSD(FIRING_OPTIONS["Bisque"]),
         height |-> <<49>>, width |-> <<49>>, length |-> <<49>>,
         volume |-> 1,
         quantity |-> <<49>>,
         price |-> formatUSD(0),
         errors |-> {}])

\* lines 1453-1484
getTableData(rows) ==
    [i \in 1..Len(rows) |->
        LET row == rows[i]
            height == OrZero(parseInt(row.height))
            width == OrZero(parseInt(row.width))
            length == OrZero(parseInt(row.length))
        IN  [_id |-> generateProductID(row.firingType, height, width, length),
             firingType |-> row.firingType,
             unitCost |-> OrZero(parseDollar(row.unitCost)),
             height |-> height,
             width |-> width,
             length |-> length,
             volume |-> row.volume,
             quantity |-> OrZero(parseInt(row.quantity)),
             price |-> OrZero(parseDollar(row.price))]]

\* Number(price).toFixed(2) of an amount of whole cents
toFixed2(cents) ==
    Digits(cents \div 100) \o <<46, 48 + ((cents \div 10) % 10), 48 + (cents % 10)>>
\* lines 1143-1167: the line item of an item of the worksheet data
createCartItemData(item) ==
    [itemType |-> [preset |-> "PHYSICAL"],
     price |-> toFixed2(item.price),
     productName |-> item.firingType,
     catalogItemId |-> item._id,
     options |-> [Type |-> item.firingType,
                  Height |-> NumberText(item.height),
                  Width |-> NumberText(item.width),
                  Length |-> NumberText(item.length)],
     quantity |-> item.quantity]

----------------------------------------------------------------------------
(* The firing worksheet that manages the state of its Delete buttons         *)
(* (src/firing-worksheet.js, lines 812-1287).  Its validateInput,            *)
(* calculateRowValues, updateTotalCost and generateProductID are those of    *)
(* lines 1-358, line for line.                                               *)

\* lines 818-819
MIN_DAYS_AHEAD == 1
DEFAULT_DAYS_AHEAD == 10

\* date.toISOString().split('T')[0] for an instant of April or May 2023
IsoDate(t) ==
    LET dayOfApril == t \div TICKS_PER_DAY - (DaysFromCivil(2023, 4, 1) - DaysFromCivil(2023, 1, 1)) + 1
    IN  IF dayOfApril <= 30 THEN <<2023, 4, dayOfApril>> ELSE <<2023, 5, dayOfApril - 30>>
\* date.setDate(date.getDate() + days) on an instant
PlusDays(t, days) == t + days * TICKS_PER_DAY

\* lines 1102-1199: the row addRow() builds at instant t, before it
\* calculates its values
NewManagedRow(t) ==
    [firingType |-> "Bisque",
     unitCost |-> formatUSD(FIRING_OPTIONS["Bisque"]),
     height |-> <<49>>, width |-> <<49>>, length |-> <<49>>,
     volume |-> 1,
     quantity |-> <<49>>,
     price |-> formatUSD(0),
     dueDate |-> IsoDate(PlusDays(t, DEFAULT_DAYS_AHEAD)),
     photoBuffer |-> "none",
     disabled |-> FALSE,
     errors |-> {}]

\* lines 1086-1101: the rows with their Delete buttons disabled when there is
\* one row, enabled otherwise
enableEveryButton(rows) == [i \in 1..Len(rows) |-> [rows[i] EXCEPT !.disabled = FALSE]]
updateDeleteButtonState(rows) ==
    [i \in 1..Len(rows) |-> [rows[i] EXCEPT !.disabled = (Len(rows) = 1)]]

\* lines 1039-1043: the date picked is before the same time of the day
\* MIN_DAYS_AHEAD days after t
IsTooSoon(date, t) ==
    /\ date # <<>>
    /\ DateParse(date) < PlusDays(t, MIN_DAYS_AHEAD)

\* a price divided by a quantity: the quotient of two numbers
Quotient(a, b) == IF a = NaN \/ b = NaN THEN [nan |-> TRUE] ELSE [num |-> a, den |-> b]

\* lines 1250-1268: the data submitWorksheet() reads from the rows
ManagedDataOf(rows) ==
    [i \in 1..Len(rows) |->
        LET row == rows[i]
        IN  [_id |-> generateProductID(row.firingType, parseInt(row.height),
                                       parseInt(row.width), parseInt(row.length)),
             firingType |-> row.firingType,
             unitCost |-> parseAmount(row.unitCost),
             height |-> parseInt(row.height),
             width |-> parseInt(row.width),
             length |-> parseInt(row.length),
             volume |-> row.volume,
             quantity |-> parseInt(row.quantity),
             price |-> Quotient(parseAmount(row.price), parseInt(row.quantity)),
             dueDate |-> IF row.dueDate = <<>> THEN Null ELSE row.dueDate,
             specialDirections |-> Null,
             photoBuffer |-> IF row.photoBuffer = "base64" THEN "base64" ELSE "null"]]

----------------------------------------------------------------------------
(* The validating addWorksheetToCart (src/unnamed/part_000, lines 1010-1167). *)
(* A value of a field is [t |-> "number", v |-> n] with n the number in      *)
(* hundredths (or NaN), [t |-> "string", v |-> code units] or                *)
(* [t |-> "null"]; a field no item has is undefined.                         *)

Hundredths(n) == 100 * n
Num(n) == [t |-> "number", v |-> n]
JsNull == [t |-> "null"]
JsUndefined == [t |-> "undefined"]
Str(units) == [t |-> "string", v |-> units]
\* an item that is null
NullItem == [isNull |-> TRUE]

\* lines 1018-1024, in hundredths
VALIDATION ==
    [MAX_QUANTITY |-> Hundredths(999), MIN_QUANTITY |-> Hundredths(1),
     MAX_PRICE |-> 150099, MIN_PRICE |-> 1,
     MAX_TOTAL_ITEMS |-> Hundredths(99)]

\* item[f]
JsGet(item, f) == IF f \in DOMAIN item THEN item[f] ELSE JsUndefined
\* Number(x)
JsNumber(x) ==
    CASE x.t = "number" -> x.v
      [] x.t = "null" -> 0
      [] x.t = "undefined" -> NaN
      [] x.t = "string" ->
            IF x.v = <<>> THEN 0
            ELSE IF DigitPrefix(x.v) = x.v THEN Hundredths(DigitsValue(x.v))
            ELSE NaN
\* x || 0
JsOrZero(x) ==
    IF \/ x.t \in {"null", "undefined"}
       \/ x.t = "number" /\ x.v \in {0, NaN}
       \/ x.t = "string" /\ x.v = <<>>
    THEN Num(0) ELSE x
\* Number.isInteger(n), and a test that takes every number for an integer
IsAnyNumber(n) == n # NaN
IsInteger(n) == n # NaN /\ n % 100 = 0

\* lines 1031-1071: the error thrown for the item, or "null"
validateWorksheetItem(item) ==
    LET quantity == JsNumber(JsGet(item, "quantity"))
        price == JsNumber(JsGet(item, "price"))
        invalid(dim) ==
            /\ dim \in DOMAIN item
            /\ JsNumber(item[dim]) = NaN \/ JsNumber(item[dim]) <= 0
    IN  IF item = NullItem THEN "Invalid worksheet item format"
        ELSE IF \/ quantity = NaN
                \/ ~IsInteger(quantity)
                \/ quantity < VALIDATION.MIN_QUANTITY
                \/ quantity > VALIDATION.MAX_QUANTITY
        THEN "Invalid quantity"
        ELSE IF \/ price = NaN
                \/ price < VALIDATION.MIN_PRICE
                \/ price > VALIDATION.MAX_PRICE
        THEN "Invalid price"
        ELSE IF \E dim \in {"height", "width", "length"} : invalid(dim)
        THEN "Invalid dimension"
        ELSE "null"

\* lines 1088 and 1123-1126: the sum of Number(item.quantity || 0)
RECURSIVE SumOfQuantities(_)
SumOfQuantities(worksheetData) ==
    IF worksheetData = <<>> THEN 0
    ELSE LET rest == SumOfQuantities(Tail(worksheetData))
             q == JsNumber(JsOrZero(JsGet(Head(worksheetData), "quantity")))
         IN  IF rest = NaN \/ q = NaN THEN NaN ELSE rest + q

\* lines 1078-1101: the error thrown for the data, or "null"
validateWorksheetData(worksheetData) ==
    LET failing == { i \in 1..Len(worksheetData) :
                        validateWorksheetItem(worksheetData[i]) # "null" }
        first == CHOOSE i \in failing : \A j \in failing : i <= j
        totalItems == SumOfQuantities(worksheetData)
    IN  IF worksheetData = NotAnArray THEN "worksheetData must be an array"
        ELSE IF Len(worksheetData) = 0 THEN "worksheetData cannot be empty"
        ELSE IF \E i \in 1..Len(worksheetData) : worksheetData[i] = NullItem
        THEN "TypeError"
        ELSE IF totalItems # NaN /\ totalItems > VALIDATION.MAX_TOTAL_ITEMS
        THEN "Total quantity exceeds maximum allowed"
        ELSE IF failing # {} THEN validateWorksheetItem(worksheetData[first])
        ELSE "null"

\* lines 1119-1122: the sum of the quantities of the line items of a cart
RECURSIVE ExistingQuantity(_)
ExistingQuantity(lineItems) ==
    IF lineItems = <<>> THEN 0
    ELSE Head(lineItems).quantity + ExistingQuantity(Tail(lineItems))

\* a validated item as generateCustomLineItemsFromWorksheet takes it: the
\* price in cents, the quantity and the dimensions in units
AsRow(item) ==
    LET units(f) == JsNumber(item[f]) \div 100
        dims == { f \in {"height", "width", "length"} : f \in DOMAIN item }
    IN  [f \in {"_id", "firingType", "price", "quantity"} \cup dims |->
            CASE f \in {"_id", "firingType"} -> item[f]
              [] f = "price" -> JsNumber(item.price)
              [] OTHER -> units(f)]
AsRows(worksheetData) == [i \in 1..Len(worksheetData) |-> AsRow(worksheetData[i])]

\* lines 1109-1141: the store and the outcome of the call.  getElevatedCart
\* and generateCustomLineItemsFromWorksheet are not in part_000: the first
\* reads the current cart, the second is the one of firing-worksheet-web.js.
addValidatedWorksheetToCart(current, worksheetData, checkFault, mainFault, fallbackFault) ==
    LET error == validateWorksheetData(worksheetData)
        failed(log) ==
            [current |-> current, created |-> <<>>,
             call |-> [fn |-> "addWorksheetToCart", worksheetData |-> worksheetData,
                       log |-> log, threw |-> "Failed to add worksheet to cart"]]
        read(ok) == <<Called("getCurrentCart", "check", ok)>>
        newQuantity == SumOfQuantities(worksheetData) \div 100
        r == generateCustomLineItemsFromWorksheet(current, AsRows(worksheetData),
                                                  mainFault, fallbackFault)
    IN  IF error # "null" THEN failed(<<>>)
        ELSE IF checkFault THEN failed(read(FALSE))
        ELSE IF /\ current # NoCart
                /\ ExistingQuantity(current.lineItems) + newQuantity > 99
        THEN failed(read(TRUE))
        ELSE [current |-> r.current,
              created |-> r.created,
              call |-> IF "threw" \in DOMAIN r
                       THEN [fn |-> "addWorksheetToCart", worksheetData |-> worksheetData,
                             log |-> read(TRUE) \o r.log,
                             threw |-> "Failed to add worksheet to cart"]
                       ELSE [fn |-> "addWorksheetToCart", worksheetData |-> worksheetData,
                             log |-> read(TRUE) \o r.log, returned |-> r.returned]]

\* the items a page may send: 3 pieces of 4 x 2 x 6 for 4.32; 99 pieces; an
\* item without dimensions; and items with a quantity, a price or a dimension
\* out of its range
TeaCups ==
    [_id |-> "row-1", firingType |-> "Bisque", quantity |-> Num(Hundredths(3)),
     price |-> Num(432), height |-> Num(Hundredths(4)), width |-> Num(Hundredths(2)),
     length |-> Num(Hundredths(6))]
GoodItems ==
    {TeaCups,
     [TeaCups EXCEPT !.quantity = Num(Hundredths(99)), !.price = Num(150099)],
     [TeaCups EXCEPT !.quantity = Str(<<50>>), !.price = Num(1)],
     [_id |-> "row-2", firingType |-> "Glaze", quantity |-> Num(Hundredths(1)),
      price |-> Num(150)]}
BadQuantities ==
    {Num(250), Num(0), Num(Hundredths(1000)), Num(0 - Hundredths(1)), Num(NaN),
     JsNull, Str(<<97, 98, 99>>), Num(Hundredths(100))}
BadPrices == {Num(0), Num(150100), Num(NaN), JsNull}
BadDimensions == {Num(0), Num(0 - Hundredths(2)), JsNull}
BadItems ==
    { [TeaCups EXCEPT !.quantity = q] : q \in BadQuantities }
    \cup { [TeaCups EXCEPT !.price = v] : v \in BadPrices }
    \cup { [TeaCups EXCEPT ![dim] = v] : dim \in {"height", "width", "length"},
                                         v \in BadDimensions }
    \cup { [_id |-> "row-3", firingType |-> "Bisque", price |-> Num(432)] }
ValidatedWorksheets ==
    {NotAnArray, <<>>, <<NullItem>>}
    \cup { <<item>> : item \in GoodItems \cup BadItems }
    \cup { <<TeaCups, item>> : item \in GoodItems \cup BadItems }
    \cup { <<[TeaCups EXCEPT !.quantity = Num(Hundredths(60))],
             [TeaCups EXCEPT !.quantity = Num(Hundredths(40))]>> }

----------------------------------------------------------------------------
(* The state machine *)

\* the two executions of doGet a concurrent host may run at once
Executions == {"A", "B"}
\* an execution that has not started, with what it will read and do:
\*   pc       the statement it is at
\*   e        its request
\*   prop     what getProperty('lastRefresh') returned to it (line 792)
\*   out      what the fetcher returned to it (line 477)
\* and, for the record, what had happened when it read the property and when
\* it evaluated the check, and what it did
NewExecution ==
    [pc |-> "idle", e |-> [parameter |-> NoParameters], prop |-> NoProperty,
     out |-> [kind |-> "none"],
     readBeforeWrite |-> FALSE, checkedOnEmpty |-> FALSE, checkedBeforeCompletion |-> FALSE,
     invoked |-> FALSE, wrote |-> FALSE, fetched |-> FALSE, completed |-> FALSE]
NoExecutions == [p \in Executions |-> NewExecution]

Init ==
    /\ now = NowInit
    /\ lastRefresh = NoProperty
    /\ employeeData = <<>>
    /\ departments = <<>>
    /\ called = [fn |-> "none"]
    /\ triggered = FALSE
    /\ lastLoad = "none"
    /\ loadedOkAt = NoProperty
    /\ loads = 0
    /\ response = [kind |-> "none"]
    /\ executions = NoExecutions
    /\ shop = NoShop
    /\ sheet = NoSheet

\* the host clock moves on to a later instant
Tick ==
    /\ \E t \in Instants : t > now /\ now' = t
    /\ UNCHANGED <<lastRefresh, employeeData, departments, called, triggered,
                   lastLoad, loadedOkAt, loads, response, executions>>
    /\ UNCHANGED siteVars

\* the effect of one invocation of loadData() when the fetcher returns out
Loading(out) ==
    LET r == loadDataResult(employeeData, departments, now, out)
    IN  /\ loads < MaxLoads
        /\ loads' = loads + 1
        /\ lastRefresh' = DateToString(now)
        /\ lastLoad' = IF r.ok THEN "ok" ELSE "failed"
        /\ loadedOkAt' = IF r.ok THEN now ELSE loadedOkAt

\* loadData() run on its own, the fetcher returning out
LoadDataWith(out) ==
    LET r == loadDataResult(employeeData, departments, now, out)
    IN  /\ Loading(out)
        /\ employeeData' = r.employeeData
        /\ departments' = r.departments
        /\ called' = [fn |-> "loadData"]
        /\ triggered' = TRUE
        /\ response' = loadDataReturn(r.ok)
        /\ UNCHANGED <<now, executions>>
        /\ UNCHANGED siteVars

LoadData == \E out \in FetchOutcomes : LoadDataWith(out)

\* a request through the router; the load, when one is triggered, gets out
doGet ==
    \E e \in Requests :
        IF IsStale(employeeData, lastRefresh, now)
        THEN \E out \in RouterOutcomes :
                LET r == loadDataResult(employeeData, departments, now, out)
                IN  /\ Loading(out)
                    /\ employeeData' = r.employeeData
                    /\ departments' = RouteMap(r.employeeData, r.departments, e)
                    /\ response' = Route(r.employeeData, r.departments, e, now)
                    /\ called' = [fn |-> "doGet", e |-> e]
                    /\ triggered' = TRUE
                    /\ UNCHANGED <<now, executions>>
                    /\ UNCHANGED siteVars
        ELSE /\ departments' = RouteMap(employeeData, departments, e)
             /\ response' = Route(employeeData, departments, e, now)
             /\ called' = [fn |-> "doGet", e |-> e]
             /\ triggered' = FALSE
             /\ UNCHANGED <<now, lastRefresh, employeeData, lastLoad, loadedOkAt, loads,
                            executions>>
             /\ UNCHANGED siteVars

\* the query functions called on their own
Query(fn, e, result, deps) ==
    /\ called' = [fn |-> fn, e |-> e]
    /\ triggered' = FALSE
    /\ response' = result
    /\ departments' = deps
    /\ UNCHANGED <<now, lastRefresh, employeeData, lastLoad, loadedOkAt, loads, executions>>
    /\ UNCHANGED siteVars

GetEmployee ==
    \E e \in GetEmployeeRequests :
        Query("getEmployee", e, getEmployee(employeeData, e), departments)
GetEmployees ==
    \E e \in GetEmployeesRequests :
        Query("getEmployees", e, getEmployees(employeeData, e, now), departments)
GetDepartment ==
    \E e \in GetDepartmentRequests :
        Query("getDepartment", e, getDepartment(employeeData, e), departments)
GetDepartments ==
    \E e \in GetDepartmentsRequests :
        Query("getDepartments", e, getDepartments(employeeData, departments, e),
              getDepartmentsMap(employeeData, departments, e))
GetDepartmentByName ==
    \E e \in GetDepartmentByNameRequests :
        Query("getDepartmentByName", e,
              getDepartmentByName(employeeData, departments, e), departments)

\* the loader and the query functions on the maps
Next ==
    \/ LoadData
    \/ GetEmployee
    \/ GetEmployees
    \/ GetDepartment
    \/ GetDepartments
    \/ GetDepartmentByName

Spec == Init /\ [][Next]_vars

\* the web app: requests through doGet as the clock advances
RouterNext ==
    \/ Tick
    \/ doGet

SpecRouter == Init /\ [][RouterNext]_vars

----------------------------------------------------------------------------
(* doGet on a concurrent host: two executions share the maps and the script *)
(* property and interleave at the calls to the host's services              *)

ConcurrentRequests ==
    {[pathInfo |-> S_employees \o S_slash \o S_1, parameter |-> NoParameters],
     [pathInfo |-> S_departments, parameter |-> NoParameters]}
ConcurrentOutcomes ==
    {[kind |-> "fetchThrows"],
     [kind |-> "report", content |-> <<Row(S_1, S_Dev, <<2023, 1, 1>>, Null)>>],
     [kind |-> "report", content |-> <<Row(S_2, S_art, <<2023, 1, 1>>, Null)>>]}

\* the snapshot a load of the day before left
SnapshotOfYesterday ==
    loadDataResult(<<>>, <<>>, NowInit,
                   [kind |-> "report", content |-> <<Row(S_1, S_Dev, <<2023, 1, 1>>, Null)>>])

\* the cache is stale when the two requests arrive: it was never loaded, or it
\* was loaded more than 24 hours ago
InitConcurrent ==
    /\ called = [fn |-> "none"]
    /\ triggered = FALSE
    /\ response = [kind |-> "none"]
    /\ executions = NoExecutions
    /\ shop = NoShop
    /\ sheet = NoSheet
    /\ \/ /\ now \in {NowInit + k : k \in 0..MaxFine}
          /\ lastRefresh = NoProperty
          /\ employeeData = <<>>
          /\ departments = <<>>
          /\ lastLoad = "none"
          /\ loadedOkAt = NoProperty
          /\ loads = 0
       \/ /\ now \in {NowInit + TICKS_PER_DAY + k : k \in 1..MaxFine}
          /\ lastRefresh = DateToString(NowInit)
          /\ employeeData = SnapshotOfYesterday.employeeData
          /\ departments = SnapshotOfYesterday.departments
          /\ lastLoad = "ok"
          /\ loadedOkAt = NowInit
          /\ loads = 1

\* line 792: the execution reads the script property
GetProperty(p) ==
    /\ executions[p].pc = "idle"
    /\ \E e \in ConcurrentRequests :
          executions' = [executions EXCEPT
              ![p].pc = "check",
              ![p].e = e,
              ![p].prop = lastRefresh,
              ![p].readBeforeWrite = \A q \in Executions : ~executions[q].wrote]
    /\ UNCHANGED <<now, lastRefresh, employeeData, departments, called, triggered,
                   lastLoad, loadedOkAt, loads, response>>
    /\ UNCHANGED siteVars

\* lines 793-795: the staleness check; nothing but the map and the timestamp
\* read decides whether loadData() is invoked
CheckStale(p) ==
    /\ executions[p].pc = "check"
    /\ LET stale == IsStale(employeeData, executions[p].prop, now)
       IN  executions' = [executions EXCEPT
              ![p].pc = IF stale THEN "setProperty" ELSE "route",
              ![p].invoked = stale,
              ![p].checkedOnEmpty = (Len(employeeData) = 0),
              ![p].checkedBeforeCompletion = \A q \in Executions : ~executions[q].completed]
    /\ UNCHANGED <<now, lastRefresh, employeeData, departments, called, triggered,
                   lastLoad, loadedOkAt, loads, response>>
    /\ UNCHANGED siteVars

\* line 475
SetProperty(p) ==
    /\ executions[p].pc = "setProperty"
    /\ lastRefresh' = DateToString(now)
    /\ executions' = [executions EXCEPT ![p].pc = "fetch", ![p].wrote = TRUE]
    /\ UNCHANGED <<now, employeeData, departments, called, triggered,
                   lastLoad, loadedOkAt, loads, response>>
    /\ UNCHANGED siteVars

\* line 477: the request to the report source and its answer
Fetch(p) ==
    /\ executions[p].pc = "fetch"
    /\ \E out \in ConcurrentOutcomes :
          executions' = [executions EXCEPT
              ![p].pc = "rows", ![p].out = out, ![p].fetched = TRUE]
    /\ UNCHANGED <<now, lastRefresh, employeeData, departments, called, triggered,
                   lastLoad, loadedOkAt, loads, response>>
    /\ UNCHANGED siteVars

\* lines 478-564: the rest of loadData(), which calls no service of the host
BuildSnapshot(p) ==
    /\ executions[p].pc = "rows"
    /\ LET r == loadDataResult(employeeData, departments, now, executions[p].out)
       IN  /\ employeeData' = r.employeeData
           /\ departments' = r.departments
           /\ lastLoad' = IF r.ok THEN "ok" ELSE "failed"
           /\ loadedOkAt' = IF r.ok THEN now ELSE loadedOkAt
    /\ loads' = loads + 1
    /\ executions' = [executions EXCEPT ![p].pc = "route", ![p].completed = TRUE]
    /\ UNCHANGED <<now, lastRefresh, called, triggered, response>>
    /\ UNCHANGED siteVars

\* lines 797-852: the execution routes its request and answers
Respond(p) ==
    /\ executions[p].pc = "route"
    /\ departments' = RouteMap(employeeData, departments, executions[p].e)
    /\ response' = Route(employeeData, departments, executions[p].e, now)
    /\ called' = [fn |-> "doGet", e |-> executions[p].e]
    /\ triggered' = executions[p].invoked
    /\ executions' = [executions EXCEPT ![p].pc = "done"]
    /\ UNCHANGED <<now, lastRefresh, employeeData, lastLoad, loadedOkAt, loads>>
    /\ UNCHANGED siteVars

ConcurrentNext ==
    \E p \in Executions :
        \/ GetProperty(p)
        \/ CheckStale(p)
        \/ SetProperty(p)
        \/ Fetch(p)
        \/ BuildSnapshot(p)
        \/ Respond(p)

SpecConcurrent == InitConcurrent /\ [][ConcurrentNext]_vars

----------------------------------------------------------------------------
(* The directory on reports with varied dates and manager emails: loadData  *)
(* and getEmployees with its filters                                        *)

S_Ann_x == <<65, 110, 110, 64, 120>>
S_AN == <<65, 78>>
S_e == <<101>>
S_BO == <<66, 79>>
S_nn == <<110, 110>>

\* Ann Lee of Dev: hired on 2023-01-01 and, in one report, departed the month
\* before; hired 8 days before 2023-04-01; to start on 2023-05-01
AnnRows ==
    { Row(S_1, S_Dev, <<2023, 1, 1>>, Null),
      Row(S_1, S_Dev, <<2023, 1, 1>>, <<2022, 12, 1>>),
      Row(S_1, S_Dev, <<2023, 3, 24>>, Null),
      Row(S_1, S_Dev, <<2023, 5, 1>>, Null) }
\* Bob Roy: of art since 2021-06-15, reporting to ann@x; of Dev since
\* 2023-03-25, reporting to Ann@x
BobRows ==
    { Row(S_2, S_art, <<2021, 6, 15>>, Null),
      SetProp(Row(S_2, S_Dev, <<2023, 3, 25>>, Null),
              "profiles_reports_to_email", S_Ann_x) }

\* report.content: Ann's row, Bob's row, or both in that order
ReportContents ==
    { c \in SeqsUpTo(AnnRows \cup BobRows, MaxRows) :
        /\ Len(c) <= 2
        /\ Len(c) = 2 => (c[1] \in AnnRows /\ c[2] \in BobRows) }
ReportOutcomes == { [kind |-> "report", content |-> c] : c \in ReportContents }

\* e.parameter of the getEmployees calls
FilterRequests ==
    { [parameter |-> q] :
        q \in {NoParameters,
               [includePastEmployees |-> S_true],
               [firstName |-> S_AN],
               [lastName |-> S_e, includePastEmployees |-> S_true],
               [emailPrefix |-> S_BO],
               [emailPrefix |-> S_nn],
               [departmentId |-> S_Dev],
               [departmentId |-> S_Dev, includePastEmployees |-> S_false],
               [recentHire |-> S_true],
               [recentHire |-> S_true, departmentId |-> S_Dev,
                includePastEmployees |-> S_true]} }

\* the script starts within the first second of 2023-04-01
InitReport ==
    /\ now \in {NowInit, NowInit + MaxFine}
    /\ lastRefresh = NoProperty
    /\ employeeData = <<>>
    /\ departments = <<>>
    /\ called = [fn |-> "none"]
    /\ triggered = FALSE
    /\ lastLoad = "none"
    /\ loadedOkAt = NoProperty
    /\ loads = 0
    /\ response = [kind |-> "none"]
    /\ executions = NoExecutions
    /\ shop = NoShop
    /\ sheet = NoSheet

LoadReport == \E out \in ReportOutcomes : LoadDataWith(out)
FindEmployees ==
    \E e \in FilterRequests :
        Query("getEmployees", e, getEmployees(employeeData, e, now), departments)

ReportNext ==
    \/ LoadReport
    \/ FindEmployees
    \/ GetDepartments

SpecReport == InitReport /\ [][ReportNext]_vars

----------------------------------------------------------------------------
(* The web method addWorksheetToCart, called by the worksheet page *)

\* the HR endpoint at rest
HrIdle ==
    /\ now = NowInit
    /\ lastRefresh = NoProperty
    /\ employeeData = <<>>
    /\ departments = <<>>
    /\ called = [fn |-> "none"]
    /\ triggered = FALSE
    /\ lastLoad = "none"
    /\ loadedOkAt = NoProperty
    /\ loads = 0
    /\ response = [kind |-> "none"]
    /\ executions = NoExecutions

InitCart ==
    /\ HrIdle
    /\ \E c \in InitialCarts : shop = [NoShop EXCEPT !.current = c]
    /\ sheet = NoSheet

AddWorksheetToCart ==
    /\ \E worksheetData \in Worksheets, mainFault \in MainFaults, fallbackFault \in FallbackFaults :
          shop' = addWorksheetToCart(shop.current, worksheetData, mainFault, fallbackFault)
    /\ UNCHANGED <<hrVars, sheet>>

CartNext == AddWorksheetToCart

SpecCart == InitCart /\ [][CartNext]_vars

----------------------------------------------------------------------------
(* The firing worksheet element on a page *)

\* the values typed into a number input; the firing types a visitor selects;
\* the due dates picked: 3 and 4 days after 2023-04-01
NumberInputs == {<<51>>, <<53, 54>>, <<>>}
SelectedTypes == {"Bisque", "Slipcast Bisque"}
DueDates == {<<>>, <<2023, 4, 4>>, <<2023, 4, 5>>}
NumberFields == {"height", "width", "length", "quantity"}

\* the page is opened on 2023-04-01, at midnight or one tick after it
InitSheet ==
    /\ now \in {NowInit, NowInit + 1}
    /\ lastRefresh = NoProperty
    /\ employeeData = <<>>
    /\ departments = <<>>
    /\ called = [fn |-> "none"]
    /\ triggered = FALSE
    /\ lastLoad = "none"
    /\ loadedOkAt = NoProperty
    /\ loads = 0
    /\ response = [kind |-> "none"]
    /\ executions = NoExecutions
    /\ shop = NoShop
    /\ sheet = NoSheet

\* lines 52-163
connectedCallback ==
    /\ ~sheet.connected
    /\ \E halfUp \in BOOLEAN :
          sheet' = [sheet EXCEPT
              !.connected = TRUE,
              !.rows = <<calculateRowValues(NewRow, now, halfUp)>>,
              !.total = formatUSD(0),
              !.event = "connectedCallback", !.data = <<>>]
    /\ UNCHANGED <<hrVars, shop>>

\* line 161: a click on Add Row
ClickAddRow ==
    /\ sheet.connected
    /\ Len(sheet.rows) < MaxSheetRows
    /\ \E halfUp \in BOOLEAN :
          sheet' = [sheet EXCEPT
              !.rows = Append(@, calculateRowValues(NewRow, now, halfUp)),
              !.event = "addRow", !.data = <<>>]
    /\ UNCHANGED <<hrVars, shop>>

\* lines 165-192, the target a select
ChangeFiringType ==
    /\ sheet.connected
    /\ sheet.changes < MaxChanges
    /\ \E i \in 1..Len(sheet.rows), type \in SelectedTypes, halfUp \in BOOLEAN :
          LET row == [sheet.rows[i] EXCEPT !.firingType = type,
                                           !.unitCost = formatUSD(FIRING_OPTIONS[type])]
              rows == [sheet.rows EXCEPT ![i] = calculateRowValues(row, now, halfUp)]
          IN  sheet' = [sheet EXCEPT
                  !.rows = rows,
                  !.total = updateTotalCost(rows, sheet.total),
                  !.changes = @ + 1,
                  !.event = "change", !.data = <<>>]
    /\ UNCHANGED <<hrVars, shop>>

\* lines 165-192, the target a number input
ChangeNumber ==
    /\ sheet.connected
    /\ sheet.changes < MaxChanges
    /\ \E i \in 1..Len(sheet.rows), field \in NumberFields, value \in NumberInputs,
          halfUp \in BOOLEAN :
          LET typed == [sheet.rows[i] EXCEPT ![field] = value]
              error == validateInput(value)
              rejected == [typed EXCEPT !.errors = @ \cup {field}]
              accepted == [typed EXCEPT !.errors = @ \ {field}]
              rows == [sheet.rows EXCEPT ![i] = calculateRowValues(accepted, now, halfUp)]
          IN  IF error # "null"
              THEN sheet' = [sheet EXCEPT
                      !.rows = [sheet.rows EXCEPT ![i] = rejected],
                      !.changes = @ + 1,
                      !.event = "rejected", !.data = <<>>]
              ELSE sheet' = [sheet EXCEPT
                      !.rows = rows,
                      !.total = updateTotalCost(rows, sheet.total),
                      !.changes = @ + 1,
                      !.event = "change", !.data = <<>>]
    /\ UNCHANGED <<hrVars, shop>>

\* lines 165-192, the target the date input
ChangeDueDate ==
    /\ sheet.connected
    /\ sheet.changes < MaxChanges
    /\ \E i \in 1..Len(sheet.rows), date \in DueDates, halfUp \in BOOLEAN :
          LET row == [sheet.rows[i] EXCEPT !.dueDate = date]
              rows == [sheet.rows EXCEPT ![i] = calculateRowValues(row, now, halfUp)]
          IN  sheet' = [sheet EXCEPT
                  !.rows = rows,
                  !.total = updateTotalCost(rows, sheet.total),
                  !.changes = @ + 1,
                  !.event = "change", !.data = <<>>]
    /\ UNCHANGED <<hrVars, shop>>

\* lines 165-192, the target the special directions input, whose text no
\* calculation reads
ChangeDirections ==
    /\ sheet.connected
    /\ sheet.changes < MaxChanges
    /\ \E i \in 1..Len(sheet.rows), halfUp \in BOOLEAN :
          LET rows == [sheet.rows EXCEPT ![i] = calculateRowValues(@, now, halfUp)]
          IN  sheet' = [sheet EXCEPT
                  !.rows = rows,
                  !.total = updateTotalCost(rows, sheet.total),
                  !.changes = @ + 1,
                  !.event = "change", !.data = <<>>]
    /\ UNCHANGED <<hrVars, shop>>

\* lines 194-200: a click on the Delete button of a row
handleDelete ==
    /\ sheet.connected
    /\ \E i \in 1..Len(sheet.rows) :
          LET rows == SubSeq(sheet.rows, 1, i - 1) \o SubSeq(sheet.rows, i + 1, Len(sheet.rows))
          IN  sheet' = [sheet EXCEPT
                  !.rows = rows,
                  !.total = updateTotalCost(rows, sheet.total),
                  !.event = "delete", !.data = <<>>]
    /\ UNCHANGED <<hrVars, shop>>

\* lines 322-345: the element dispatches submitWorksheet with the data of its
\* rows; data is the detail of the event the latest step dispatched
submitWorksheet ==
    /\ sheet.connected
    /\ sheet' = [sheet EXCEPT !.event = "submitWorksheet",
                              !.data = WorksheetDataOf(sheet.rows)]
    /\ UNCHANGED <<hrVars, shop>>

SheetNext ==
    \/ connectedCallback
    \/ ClickAddRow
    \/ ChangeFiringType
    \/ ChangeNumber
    \/ ChangeDueDate
    \/ ChangeDirections
    \/ handleDelete
    \/ submitWorksheet

SpecSheet == InitSheet /\ [][SheetNext]_vars

----------------------------------------------------------------------------
(* The firing worksheet of src/unnamed/part_000 on a page *)

\* lines 1271-1272: the first row is created, then appended
ConnectTable ==
    /\ ~sheet.connected
    /\ sheet' = [sheet EXCEPT
          !.connected = TRUE,
          !.rows = <<createRow>>,
          !.total = updateTotalCostOfTable(<<>>),
          !.event = "connectedCallback", !.data = <<>>]
    /\ UNCHANGED <<hrVars, shop>>

\* lines 1327-1330: a click on Add Row; createRow() updates the total before
\* the row is appended
AddRowToTable ==
    /\ sheet.connected
    /\ Len(sheet.rows) < MaxSheetRows
    /\ sheet' = [sheet EXCEPT
          !.rows = Append(@, createRow),
          !.total = updateTotalCostOfTable(sheet.rows),
          !.event = "addRow", !.data = <<>>]
    /\ UNCHANGED <<hrVars, shop>>

\* lines 1275-1289: a change of a select
ChangeSelectOfTable ==
    /\ sheet.connected
    /\ sheet.changes < MaxChanges
    /\ \E i \in 1..Len(sheet.rows), type \in SelectedTypes :
          LET row == [sheet.rows[i] EXCEPT !.firingType = type,
                                           !.unitCost = formatUSD(FIRING_OPTIONS[type])]
              rows == [sheet.rows EXCEPT ![i] = calculateRowValuesOfTable(row)]
          IN  sheet' = [sheet EXCEPT
                  !.rows = rows,
                  !.total = updateTotalCostOfTable(rows),
                  !.changes = @ + 1,
                  !.event = "change", !.data = <<>>]
    /\ UNCHANGED <<hrVars, shop>>

\* lines 1290-1311: a change of an input
ChangeInputOfTable ==
    /\ sheet.connected
    /\ sheet.changes < MaxChanges
    /\ \E i \in 1..Len(sheet.rows), field \in NumberFields, value \in NumberInputs :
          LET typed == [sheet.rows[i] EXCEPT ![field] = value]
              rejected == [typed EXCEPT !.errors = @ \cup {field}]
              accepted == [typed EXCEPT !.errors = @ \ {field}]
              rows == [sheet.rows EXCEPT ![i] = calculateRowValuesOfTable(accepted)]
          IN  IF isValidInput(value) # ""
              THEN sheet' = [sheet EXCEPT
                      !.rows = [sheet.rows EXCEPT ![i] = rejected],
                      !.changes = @ + 1,
                      !.event = "rejected", !.data = <<>>]
              ELSE sheet' = [sheet EXCEPT
                      !.rows = rows,
                      !.total = updateTotalCostOfTable(rows),
                      !.changes = @ + 1,
                      !.event = "change", !.data = <<>>]
    /\ UNCHANGED <<hrVars, shop>>

\* lines 1315-1324: a click on the Delete button of a row
DeleteRowOfTable ==
    /\ sheet.connected
    /\ \E i \in 1..Len(sheet.rows) :
          LET rows == SubSeq(sheet.rows, 1, i - 1) \o SubSeq(sheet.rows, i + 1, Len(sheet.rows))
          IN  sheet' = [sheet EXCEPT
                  !.rows = rows,
                  !.total = updateTotalCostOfTable(rows),
                  !.event = "delete", !.data = <<>>]
    /\ UNCHANGED <<hrVars, shop>>

\* lines 1333-1339: a click on Submit Worksheet
SubmitTable ==
    /\ sheet.connected
    /\ sheet' = [sheet EXCEPT !.event = "submitWorksheet",
                              !.data = getTableData(sheet.rows)]
    /\ UNCHANGED <<hrVars, shop>>

TableNext ==
    \/ ConnectTable
    \/ AddRowToTable
    \/ ChangeSelectOfTable
    \/ ChangeInputOfTable
    \/ DeleteRowOfTable
    \/ SubmitTable

SpecTable == InitSheet /\ [][TableNext]_vars

----------------------------------------------------------------------------
(* The firing worksheet with managed Delete buttons on a page *)

\* the due dates picked: today, tomorrow, 3 and 4 days after 2023-04-01, none
ManagedDueDates == {<<>>, <<2023, 4, 1>>, <<2023, 4, 2>>, <<2023, 4, 4>>, <<2023, 4, 5>>}

\* lines 1102-1204: the rows and the total after addRow()
RowsAfterAddRow(rows, t, halfUp) ==
    updateDeleteButtonState(Append(rows, calculateRowValues(NewManagedRow(t), t, halfUp)))

\* lines 865-1013
ConnectManaged ==
    /\ ~sheet.connected
    /\ \E halfUp \in BOOLEAN :
          LET rows == RowsAfterAddRow(<<>>, now, halfUp)
          IN  sheet' = [sheet EXCEPT
                  !.connected = TRUE,
                  !.rows = updateDeleteButtonState(rows),
                  !.total = updateTotalCost(rows, sheet.total),
                  !.event = "connectedCallback", !.data = <<>>]
    /\ UNCHANGED <<hrVars, shop>>

\* line 1011: a click on Add Row
AddManagedRow ==
    /\ sheet.connected
    /\ Len(sheet.rows) < MaxSheetRows
    /\ \E halfUp \in BOOLEAN :
          LET rows == RowsAfterAddRow(sheet.rows, now, halfUp)
          IN  sheet' = [sheet EXCEPT
                  !.rows = rows,
                  !.total = updateTotalCost(rows, sheet.total),
                  !.event = "addRow", !.data = <<>>]
    /\ UNCHANGED <<hrVars, shop>>

\* the sheet after lines 1063-1064 for row i, changed into row
Recalculated(i, row, halfUp) ==
    LET rows == [sheet.rows EXCEPT ![i] = calculateRowValues(row, now, halfUp)]
    IN  [sheet EXCEPT
            !.rows = rows,
            !.total = updateTotalCost(rows, sheet.total),
            !.changes = @ + 1,
            !.event = "change", !.data = <<>>]
\* the sheet after a change of row i is rejected, the row left as row
Rejected(i, row) ==
    [sheet EXCEPT
        !.rows = [sheet.rows EXCEPT ![i] = row],
        !.changes = @ + 1,
        !.event = "rejected", !.data = <<>>]

\* lines 1028-1065, the target a select
ChangeManagedType ==
    /\ sheet.connected
    /\ sheet.changes < MaxChanges
    /\ \E i \in 1..Len(sheet.rows), type \in SelectedTypes, halfUp \in BOOLEAN :
          sheet' = Recalculated(i, [sheet.rows[i] EXCEPT
                                       !.firingType = type,
                                       !.unitCost = formatUSD(FIRING_OPTIONS[type])], halfUp)
    /\ UNCHANGED <<hrVars, shop>>

\* lines 1028-1065, the target the date input
ChangeManagedDate ==
    /\ sheet.connected
    /\ sheet.changes < MaxChanges
    /\ \E i \in 1..Len(sheet.rows), date \in ManagedDueDates, halfUp \in BOOLEAN :
          LET picked == [sheet.rows[i] EXCEPT !.dueDate = date]
          IN  IF IsTooSoon(date, now)
              THEN sheet' = Rejected(i, [picked EXCEPT !.errors = @ \cup {"dueDate"}])
              ELSE sheet' = Recalculated(i, [picked EXCEPT !.errors = @ \ {"dueDate"}], halfUp)
    /\ UNCHANGED <<hrVars, shop>>

\* lines 1028-1065, the target a number input
ChangeManagedNumber ==
    /\ sheet.connected
    /\ sheet.changes < MaxChanges
    /\ \E i \in 1..Len(sheet.rows), field \in NumberFields, value \in NumberInputs,
          halfUp \in BOOLEAN :
          LET typed == [sheet.rows[i] EXCEPT ![field] = value]
          IN  IF validateInput(value) # "null"
              THEN sheet' = Rejected(i, [typed EXCEPT !.errors = @ \cup {field}])
              ELSE sheet' = Recalculated(i, [typed EXCEPT !.errors = @ \ {field}], halfUp)
    /\ UNCHANGED <<hrVars, shop>>

\* lines 1028-1065, the target the special directions or the file input: the
\* file chosen is read later (lines 1179-1185)
ChangeManagedOther ==
    /\ sheet.connected
    /\ sheet.changes < MaxChanges
    /\ \E i \in 1..Len(sheet.rows), file \in BOOLEAN, halfUp \in BOOLEAN :
          sheet' = Recalculated(i, [sheet.rows[i] EXCEPT
                                       !.photoBuffer = IF file THEN "reading" ELSE @], halfUp)
    /\ UNCHANGED <<hrVars, shop>>

\* lines 1182-1183: the file chosen for a row has been read
PhotoRead ==
    /\ sheet.connected
    /\ \E i \in 1..Len(sheet.rows) :
          /\ sheet.rows[i].photoBuffer = "reading"
          /\ sheet' = [sheet EXCEPT !.rows[i].photoBuffer = "base64",
                                    !.event = "photo", !.data = <<>>]
    /\ UNCHANGED <<hrVars, shop>>

\* lines 1067-1076: a click on the Delete button of a row; a disabled button
\* takes no click
DeleteManagedRow ==
    /\ sheet.connected
    /\ \E i \in 1..Len(sheet.rows) :
          /\ ~sheet.rows[i].disabled
          /\ LET rows == updateDeleteButtonState(
                            SubSeq(sheet.rows, 1, i - 1)
                            \o SubSeq(sheet.rows, i + 1, Len(sheet.rows)))
             IN  sheet' = [sheet EXCEPT
                     !.rows = rows,
                     !.total = updateTotalCost(rows, sheet.total),
                     !.event = "delete", !.data = <<>>]
    /\ UNCHANGED <<hrVars, shop>>

\* lines 1248-1274: a click on Submit Worksheet
SubmitManaged ==
    /\ sheet.connected
    /\ sheet' = [sheet EXCEPT !.event = "submitWorksheet",
                              !.data = ManagedDataOf(sheet.rows)]
    /\ UNCHANGED <<hrVars, shop>>

ManagedNext ==
    \/ ConnectManaged
    \/ AddManagedRow
    \/ ChangeManagedType
    \/ ChangeManagedDate
    \/ ChangeManagedNumber
    \/ ChangeManagedOther
    \/ PhotoRead
    \/ DeleteManagedRow
    \/ SubmitManaged

SpecManaged == InitSheet /\ [][ManagedNext]_vars

----------------------------------------------------------------------------
(* The validating addWorksheetToCart in the store *)

AddValidatedWorksheetToCart ==
    /\ \E worksheetData \in ValidatedWorksheets, checkFault \in BOOLEAN,
          mainFault \in MainFaults, fallbackFault \in FallbackFaults :
          shop' = addValidatedWorksheetToCart(shop.current, worksheetData,
                                              checkFault, mainFault, fallbackFault)
    /\ UNCHANGED <<hrVars, sheet>>

ValidatedNext == AddValidatedWorksheetToCart

SpecValidated == InitCart /\ [][ValidatedNext]_vars

----------------------------------------------------------------------------
(* The claims *)

RECURSIVE SumHeadcount(_)
SumHeadcount(ds) ==
    IF ds = <<>> THEN 0 ELSE ds[1].departmentHeadcount + SumHeadcount(Tail(ds))

IsRealDepartment(entry) == entry.key # S_all
RealDepartments(deps) == MapValues(SelectSeq(deps, IsRealDepartment))
AfterSuccessfulLoad == called.fn = "loadData" /\ lastLoad = "ok"

\* C1: after every successful loadData(), the first as well as a reload, the
\* departmentHeadcount of the real departments sum to the headcount of the
\* 'all' record and to the number of employees in employeeData.
C1_HeadcountsAddUp ==
    AfterSuccessfulLoad =>
        /\ SumHeadcount(RealDepartments(departments))
              = MapGet(departments, S_all).departmentHeadcount
        /\ SumHeadcount(RealDepartments(departments)) = Len(employeeData)

\* C2: a loadData() that fails leaves employeeData and departments exactly as
\* they were before the call.
C2_FailedLoadCommitsNothing ==
    [][(called'.fn = "loadData" /\ loads' = loads + 1 /\ lastLoad' = "failed")
          => (employeeData' = employeeData /\ departments' = departments)]_vars

ReportGuids(out) ==
    { out.content[i].profiles_guid : i \in 1..Len(out.content) }
ReportDepartments(out) ==
    { out.content[i].profiles_category_200009617 : i \in 1..Len(out.content) }
RowsOfDepartment(out, d) ==
    Cardinality({ i \in 1..Len(out.content) :
                    out.content[i].profiles_category_200009617 = d })

\* C3: a successful loadData() rebuilds the snapshot from the report it
\* fetched: employeeData holds exactly the report's employees, departments
\* exactly their departments and 'all', and every headcount is the number of
\* the report's rows of that department.
C3_SnapshotIsTheReport ==
    [][\A out \in FetchOutcomes :
          (LoadDataWith(out) /\ lastLoad' = "ok") =>
              /\ MapKeys(employeeData') = ReportGuids(out)
              /\ MapKeys(departments') = ReportDepartments(out) \cup {S_all}
              /\ \A i \in 1..Len(departments') :
                    departments'[i].key # S_all =>
                        departments'[i].val.departmentHeadcount
                            = RowsOfDepartment(out, departments'[i].key)]_vars

QueryFunctions ==
    {"getEmployee", "getEmployees", "getDepartment", "getDepartmentByName", "getDepartments"}

\* C4: a call of a query function changes neither employeeData nor any field
\* of any department record.
C4_QueriesReadOnly ==
    [][(called'.fn \in QueryFunctions /\ loads' = loads)
          => (employeeData' = employeeData /\ departments' = departments)]_vars

\* a step in which doGet handles a request
DoGetStep == called'.fn = "doGet" /\ now' = now

\* C5: when the latest loadData() failed, the next request doGet handles
\* triggers loadData() again.
C5_FailedLoadStaysStale ==
    [][(lastLoad = "failed" /\ DoGetStep) => triggered']_vars

\* the condition of the claim, in ticks: the map is empty, or the persisted
\* timestamp (never written, or the second it names) is more than 24 hours
\* before the current time
SECONDS_PER_DAY == 24 * 60 * 60
MapEmptyOrTimestampOld ==
    \/ Len(employeeData) = 0
    \/ lastRefresh = NoProperty
    \/ now - lastRefresh * TICKS_PER_SECOND > SECONDS_PER_DAY * TICKS_PER_SECOND

\* the time since the latest successful load, when there is one
SinceLoad == now - loadedOkAt
LoadedBefore == loadedOkAt # NoProperty /\ Len(employeeData) > 0

\* C6, as claimed: doGet triggers loadData() iff the map is empty or the
\* persisted lastRefresh is more than 24 hours old, and a request less than
\* 24 hours after a successful load on a non-empty cache triggers none.
C6_Original ==
    [][DoGetStep =>
          /\ triggered' <=> MapEmptyOrTimestampOld
          /\ (LoadedBefore /\ SinceLoad < SECONDS_PER_DAY * TICKS_PER_SECOND)
                => ~triggered']_vars

\* C6, amended: doGet triggers loadData() iff the map is empty or the
\* persisted lastRefresh (written to the second) is more than 24 hours old,
\* and a request no more than 23 h 59 min 59 s after a successful load on a
\* non-empty cache triggers none.
C6_RefreshTrigger ==
    [][DoGetStep =>
          /\ triggered' <=> MapEmptyOrTimestampOld
          /\ (LoadedBefore /\ SinceLoad <= (SECONDS_PER_DAY - 1) * TICKS_PER_SECOND)
                => ~triggered']_vars

\* C6 witness: a request served from the snapshot 23 h 59 min 59 s after the load
C6_Witness ==
    /\ called.fn = "doGet"
    /\ ~triggered
    /\ LoadedBefore
    /\ SinceLoad = (SECONDS_PER_DAY - 1) * TICKS_PER_SECOND

IsError(r) == "error" \in DOMAIN r /\ "status" \in DOMAIN r

\* C7: getEmployee with an id that is no key of employeeData returns an error
\* value with status 404 and does not throw.
C7_UnknownEmployeeNotFound ==
    (called.fn = "getEmployee" /\ called.e.parameter.employeeId \notin MapKeys(employeeData))
        => /\ "threw" \notin DOMAIN response
           /\ IsError(response)
           /\ response.status = 404
           /\ "employee" \notin DOMAIN response

\* C7 witness: an unknown id asked of a snapshot of two employees
C7_Witness ==
    /\ called.fn = "getEmployee"
    /\ Len(employeeData) = 2
    /\ called.e.parameter.employeeId \notin MapKeys(employeeData)
    /\ response.status = 404

\* the routes of a request, read off its path
PathOf(e) == IF "pathInfo" \in DOMAIN e THEN e.pathInfo ELSE Undefined
MissingPath(e) == PathOf(e) \in {Undefined, <<>>}
EmployeeIdOf(e) == SubSeq(PathOf(e), Len(S_employees) + 2, Len(PathOf(e)))
DepartmentNameOf(e) == SubSeq(PathOf(e), Len(S_departments) + 2, Len(PathOf(e)))
IsEmployeePath(e) ==
    ~MissingPath(e) /\ Len(PathOf(e)) > Len(S_employees)
    /\ SubSeq(PathOf(e), 1, Len(S_employees) + 1) = S_employees \o S_slash
IsDepartmentPath(e) ==
    ~MissingPath(e) /\ Len(PathOf(e)) > Len(S_departments)
    /\ SubSeq(PathOf(e), 1, Len(S_departments) + 1) = S_departments \o S_slash
MalformedRoute(e) ==
    \/ IsEmployeePath(e) /\ (EmployeeIdOf(e) = <<>> \/ ~IsDigits(EmployeeIdOf(e)))
    \/ IsDepartmentPath(e) /\ DepartmentNameOf(e) = <<>>
    \/ /\ ~MissingPath(e) /\ ~IsEmployeePath(e) /\ ~IsDepartmentPath(e)
       /\ PathOf(e) \notin {S_employees, S_departments}
UnknownEmployee(e) ==
    /\ IsEmployeePath(e) /\ ~MalformedRoute(e)
    /\ EmployeeIdOf(e) \notin MapKeys(employeeData)
UnknownDepartment(e) ==
    /\ IsDepartmentPath(e) /\ ~MalformedRoute(e)
    /\ \A i \in 1..Len(departments) :
          /\ toLowerCase(departments[i].val.name) # toLowerCase(DepartmentNameOf(e))
          /\ Prop(departments[i].val, "id") # DepartmentNameOf(e)

\* C8, as claimed: malformed routing (missing path, empty or non-numeric
\* employee id, empty department name, unknown endpoint) is answered with
\* status 400, an unknown employee or department with 404.
C8_Original ==
    called.fn = "doGet" =>
        /\ (MissingPath(called.e) \/ MalformedRoute(called.e))
              => (IsError(response) /\ response.status = 400)
        /\ (UnknownEmployee(called.e) \/ UnknownDepartment(called.e))
              => (IsError(response) /\ response.status = 404)

\* C8, amended: a missing path is answered with status 400; an empty or
\* non-numeric employee id, an empty department name and an unknown endpoint
\* with status 500; an unknown employee or department with 404.
C8_RouterStatus ==
    called.fn = "doGet" =>
        /\ MissingPath(called.e) => (IsError(response) /\ response.status = 400)
        /\ MalformedRoute(called.e) => (IsError(response) /\ response.status = 500)
        /\ (UnknownEmployee(called.e) \/ UnknownDepartment(called.e))
              => (IsError(response) /\ response.status = 404)

\* C8 witness: a non-numeric employee id answered with status 500 on a loaded cache
C8_Witness ==
    /\ called.fn = "doGet"
    /\ IsEmployeePath(called.e)
    /\ EmployeeIdOf(called.e) = S_x7
    /\ Len(employeeData) > 0
    /\ response.status = 500

IncludesPast(e) ==
    "includePastEmployees" \in DOMAIN e.parameter /\ e.parameter.includePastEmployees = S_true

\* C9: getDepartments with includePastEmployees other than 'true' returns no
\* department with departmentHeadcount 0.
C9_NoEmptyDepartment ==
    (called.fn = "getDepartments" /\ ~IncludesPast(called.e) /\ "departments" \in DOMAIN response)
        => \A i \in 1..Len(response.departments) :
              response.departments[i].departmentHeadcount # 0

\* the employees of employeeData that department d counts
Members(d, includePast) ==
    { i \in 1..Len(employeeData) :
        /\ employeeData[i].val.profiles_category_200009617 = Prop(d, "id")
        /\ (includePast \/ employeeData[i].val.profiles_departure_date = Null) }

\* C9 witness: a list returned while a real department has no current employee
C9_Witness ==
    /\ called.fn = "getDepartments" /\ ~IncludesPast(called.e)
    /\ "departments" \in DOMAIN response
    /\ \E i \in 1..Len(departments) :
          /\ departments[i].key # S_all
          /\ departments[i].val.name # Null
          /\ Members(departments[i].val, FALSE) = {}

\* a precedes or equals b in alphabetical order, case ignored
Alphabetical(a, b) == SeqCompare(toLowerCase(a), toLowerCase(b)) <= 0

\* the named department records that pass the filter of the call
Listed(includePast) ==
    { i \in 1..Len(departments) :
        /\ departments[i].val.name \notin {Null, Undefined, <<>>}
        /\ (includePast \/ Members(departments[i].val, FALSE) # {}) }

\* C10: getDepartments returns the departments that pass its filter, sorted
\* alphabetically by name, and returns an error value with status 404 instead
\* of a list exactly when no department passes the filter.
C10_SortedOrNotFound ==
    called.fn = "getDepartments" =>
        LET listed == Listed(IncludesPast(called.e))
        IN  /\ (IsError(response) /\ response.status = 404) <=> listed = {}
            /\ "departments" \in DOMAIN response <=> listed # {}
            /\ "departments" \in DOMAIN response =>
                  /\ Len(response.departments) = Cardinality(listed)
                  /\ { response.departments[i].name : i \in 1..Len(response.departments) }
                        = { departments[i].val.name : i \in listed }
                  /\ \A i, j \in 1..Len(response.departments) :
                        i < j => Alphabetical(response.departments[i].name,
                                              response.departments[j].name)

\* C10 witness: a list of three departments, Dev and art among them
C10_Witness ==
    /\ called.fn = "getDepartments"
    /\ "departments" \in DOMAIN response
    /\ Len(response.departments) = 3
    /\ \E i, j \in 1..3 : /\ response.departments[i].name = S_art
                          /\ response.departments[j].name = S_Dev

\* a department record whose id is exactly s; one whose name is s, case ignored
MatchesId(s) ==
    \E i \in 1..Len(departments) : Prop(departments[i].val, "id") = s
MatchesName(s) ==
    \E i \in 1..Len(departments) :
        /\ Truthy(Prop(departments[i].val, "name"))
        /\ toLowerCase(departments[i].val.name) = toLowerCase(s)

\* C11: getDepartment with an id that is the id of no department record, and
\* getDepartmentByName with an argument that is neither the name (case
\* ignored) nor the id of a department record, return an error value with
\* status 404 and no department object.
C11_UnknownDepartmentNotFound ==
    /\ (called.fn = "getDepartment" /\ ~MatchesId(called.e.parameter.departmentId))
          => (IsError(response) /\ response.status = 404
              /\ "department" \notin DOMAIN response)
    /\ (called.fn = "getDepartmentByName"
        /\ ~MatchesId(called.e.parameter.departmentName)
        /\ ~MatchesName(called.e.parameter.departmentName))
          => (IsError(response) /\ response.status = 404
              /\ "department" \notin DOMAIN response)

\* a letter with its case ignored
Fold(c) == IF c \in 65..90 THEN c + 32 ELSE c
\* s occurs in t at some position, and at the start of t, case ignored
OccursIn(s, t) ==
    \E i \in 1..(Len(t) - Len(s) + 1) :
        \A k \in 1..Len(s) : Fold(t[i + k - 1]) = Fold(s[k])
Begins(s, t) ==
    /\ Len(s) <= Len(t)
    /\ \A k \in 1..Len(s) : Fold(t[k]) = Fold(s[k])

\* the day an instant falls on, and the day a date of the report names,
\* counted from 2023-01-01
DayOf(t) == t \div TICKS_PER_DAY
DayNamed(d) == DaysFromCivil(d[1], d[2], d[3]) - DaysFromCivil(2023, 1, 1)

\* employee satisfies the filters that the parameters q supply
Satisfies(employee, q) ==
    /\ "firstName" \in DOMAIN q => OccursIn(q.firstName, employee.profiles_first_name)
    /\ "lastName" \in DOMAIN q => OccursIn(q.lastName, employee.profiles_last_name)
    /\ "emailPrefix" \in DOMAIN q => Begins(q.emailPrefix, employee.profiles_email)
    /\ "departmentId" \in DOMAIN q
          => employee.profiles_category_200009617 = q.departmentId
    /\ ("recentHire" \in DOMAIN q /\ q.recentHire = S_true)
          => DayOf(now) - DayNamed(employee.profiles_start_date) <= 7
    /\ ~("includePastEmployees" \in DOMAIN q /\ q.includePastEmployees = S_true)
          => employee.profiles_departure_date = Null

\* the guids of the employees of employeeData that satisfy q, in insertion order
RECURSIVE SatisfyingGuids(_, _)
SatisfyingGuids(n, q) ==
    IF n = 0 THEN <<>>
    ELSE IF Satisfies(employeeData[n].val, q)
         THEN Append(SatisfyingGuids(n - 1, q), employeeData[n].key)
         ELSE SatisfyingGuids(n - 1, q)

ReportingTo(email) ==
    { i \in 1..Len(employeeData) :
        employeeData[i].val.profiles_reports_to_email = email }

\* C13: after every successful loadData(), the reportsToCount of every
\* employee of employeeData is the number of employees of employeeData whose
\* profiles_reports_to_email is exactly, case included, that employee's email.
C13_ReportsToCount ==
    AfterSuccessfulLoad =>
        \A i \in 1..Len(employeeData) :
            /\ "reportsToCount" \in DOMAIN employeeData[i].val
            /\ employeeData[i].val.reportsToCount
                  = Cardinality(ReportingTo(employeeData[i].val.profiles_email))

\* C13 witness: after a reload, one employee reports to ann@x and another to
\* Ann@x, which is the email of nobody
C13_Witness ==
    /\ AfterSuccessfulLoad
    /\ loads = 2
    /\ Len(employeeData) = 2
    /\ \E i, j \in 1..2 :
          /\ employeeData[i].val.profiles_email = S_ann_x
          /\ employeeData[j].val.profiles_reports_to_email = S_Ann_x
          /\ employeeData[i].val.reportsToCount = 0

\* msPerDay * 30.44 and msPerDay * 365.25 milliseconds, in clock ticks
\* (2630016000 ms and 31557600000 ms)
MonthLength == 2630016 * TICKS_PER_SECOND
YearLength == 31557600 * TICKS_PER_SECOND

\* n is floor(x / unit)
IsFloorOf(n, x, unit) == n * unit <= x /\ x < (n + 1) * unit

\* the interval the tenure of a loaded employee measures, when loaded at t
StartOf(employee) == DayNamed(employee.profiles_start_date) * TICKS_PER_DAY
EndOf(employee, t) ==
    IF employee.profiles_departure_date = Null THEN t
    ELSE DayNamed(employee.profiles_departure_date) * TICKS_PER_DAY

\* C14: every employee loadData() loads gets tenureInMonths
\* floor((end - start) / (msPerDay * 30.44)) and tenureInYears
\* floor((end - start) / (msPerDay * 365.25)), end being the departure date
\* if there is one and the instant of the load otherwise; an employee who
\* started on 2023-01-01, has not departed and is loaded on 2023-04-01 gets
\* tenureInMonths 2.
C14_TenureFormula ==
    [][\A out \in ReportOutcomes :
          LoadDataWith(out) =>
              \A i \in 1..Len(out.content) :
                  LET employee == MapGet(employeeData', out.content[i].profiles_guid)
                      elapsed == EndOf(employee, now) - StartOf(employee)
                  IN  /\ IsFloorOf(employee.tenureInMonths, elapsed, MonthLength)
                      /\ IsFloorOf(employee.tenureInYears, elapsed, YearLength)
                      /\ (employee.profiles_start_date = <<2023, 1, 1>>
                          /\ employee.profiles_departure_date = Null
                          /\ DayOf(now) = DayNamed(<<2023, 4, 1>>))
                            => employee.tenureInMonths = 2]_vars

\* C14 witness: the employee of the example, and one with a tenure of a year
\* and 21 months
C14_Witness ==
    /\ called.fn = "loadData"
    /\ DayOf(now) = DayNamed(<<2023, 4, 1>>)
    /\ \E i, j \in 1..Len(employeeData) :
          /\ employeeData[i].val.profiles_start_date = <<2023, 1, 1>>
          /\ employeeData[i].val.profiles_departure_date = Null
          /\ employeeData[i].val.tenureInMonths = 2
          /\ employeeData[j].val.tenureInMonths = 21
          /\ employeeData[j].val.tenureInYears = 1

\* C15: tenureInMonths and tenureInYears of every employee of employeeData
\* are non-negative integers.
C15_TenureNonNegative ==
    \A i \in 1..Len(employeeData) :
        /\ employeeData[i].val.tenureInMonths \in Nat
        /\ IsFinite(employeeData[i].val.tenureInMonths)
        /\ employeeData[i].val.tenureInYears \in Nat
        /\ IsFinite(employeeData[i].val.tenureInYears)

\* the employees of employeeData whose department code is code, and the sum
\* of their tenureInMonths
EmployeesOf(code) ==
    { i \in 1..Len(employeeData) :
        employeeData[i].val.profiles_category_200009617 = code }
RECURSIVE TenureSum(_)
TenureSum(I) ==
    IF I = {} THEN 0
    ELSE LET i == CHOOSE x \in I : TRUE
         IN  employeeData[i].val.tenureInMonths + TenureSum(I \ {i})

\* a is the mean of n numbers of sum total, rounded to the nearest integer
IsRoundedMean(a, total, n) ==
    /\ IsFinite(a)
    /\ 2 * a * n <= 2 * total + n
    /\ 2 * total + n < 2 * (a + 1) * n

\* C16: after every successful loadData(), the first or a reload, whatever
\* queries were called in between, averageTenureInMonths of every real
\* department is the rounded mean of tenureInMonths over the employees of
\* employeeData with that department's code.
C16_AverageIsRoundedMean ==
    AfterSuccessfulLoad =>
        \A i \in 1..Len(departments) :
            (departments[i].key # S_all /\ EmployeesOf(departments[i].key) # {}) =>
                IsRoundedMean(departments[i].val.averageTenureInMonths,
                              TenureSum(EmployeesOf(departments[i].key)),
                              Cardinality(EmployeesOf(departments[i].key)))

\* averageTenureInMonths of a department record, if it has one
AverageOf(department) ==
    IF "averageTenureInMonths" \in DOMAIN department
    THEN {department.averageTenureInMonths} ELSE {}
Averages(deps) == { <<deps[i].key, AverageOf(deps[i].val)>> : i \in 1..Len(deps) }

\* what loading out once into the empty maps at instant t leaves
LoadedOnce(out, t) == loadDataResult(<<>>, <<>>, t, out)

\* C17: loading the same report twice at the same instant leaves every
\* department record with the averageTenureInMonths that loading it once
\* leaves.
C17_LoadIdempotentOnAverages ==
    [][\A out \in FetchOutcomes :
          (/\ loads = 1
           /\ lastLoad = "ok"
           /\ out.kind = "report"
           /\ employeeData = LoadedOnce(out, now).employeeData
           /\ LoadDataWith(out)
           /\ lastLoad' = "ok")
              => Averages(departments') = Averages(LoadedOnce(out, now).departments)]_vars

BothAnswered == \A p \in Executions : executions[p].pc = "done"
BothFetched == \A p \in Executions : executions[p].invoked /\ executions[p].fetched

CallLog == shop.call.log
OnPath(path) == { i \in 1..Len(CallLog) : CallLog[i].path = path }
MainPathFailed == \E i \in OnPath("main") : ~CallLog[i].ok
FallbackFailed == \E i \in OnPath("fallback") : ~CallLog[i].ok
CallsOf(fn, path) == { i \in OnPath(path) : CallLog[i].fn = fn }

\* C19: when a step of the main path fails (reading the current cart,
\* processing the rows, creating a cart, removing the old items, adding the
\* new ones), the fallback is run once: it creates one new cart from the
\* worksheet data, which the call returns; when the fallback fails too, the
\* call throws an error, no cart was created and nothing is attempted after
\* the failure.  When no step fails the fallback is not run.
C19_SingleFallback ==
    shop.call.fn = "addWorksheetToCart" =>
        /\ ~MainPathFailed =>
              (OnPath("fallback") = {} /\ "returned" \in DOMAIN shop.call)
        /\ MainPathFailed =>
              /\ \A i \in OnPath("main"), j \in OnPath("fallback") : i < j
              /\ \A i \in OnPath("main") : ~CallLog[i].ok => i = Cardinality(OnPath("main"))
              /\ Cardinality(CallsOf("processWorksheetData", "fallback")) = 1
              /\ Cardinality(CallsOf("createCart", "fallback")) <= 1
              /\ ~FallbackFailed =>
                    /\ Cardinality(CallsOf("createCart", "fallback")) = 1
                    /\ Len(shop.created) = 1
                    /\ "returned" \in DOMAIN shop.call
                    /\ shop.call.returned = shop.created[1]
                    /\ [i \in 1..Len(shop.created[1].lineItems) |->
                            shop.created[1].lineItems[i].catalogItemId]
                          = [i \in 1..Len(shop.call.worksheetData) |->
                                shop.call.worksheetData[i]._id]
              /\ FallbackFailed =>
                    /\ "threw" \in DOMAIN shop.call
                    /\ shop.created = <<>>
                    /\ ~CallLog[Len(CallLog)].ok
                    /\ Cardinality({ i \in OnPath("fallback") : ~CallLog[i].ok }) = 1

\* C19 witness: adding the new items failed after the old ones were removed,
\* and the fallback created a cart of two items
C19_Witness ==
    /\ shop.call.fn = "addWorksheetToCart"
    /\ \E i \in CallsOf("removeLineItemsFromCurrentCart", "main") : CallLog[i].ok
    /\ \E i \in CallsOf("addToCurrentCart", "main") : ~CallLog[i].ok
    /\ ~FallbackFailed
    /\ Len(shop.created) = 1
    /\ Len(shop.created[1].lineItems) = 2

\* the sum, in cents, of the amounts the price cells of the rows show
RECURSIVE ShownSum(_)
ShownSum(rows) ==
    IF rows = <<>> THEN 0 ELSE parseAmount(Head(rows).price) + ShownSum(Tail(rows))

\* C20: in every state of the connected worksheet, reached by any sequence of
\* add-row, delete-row and accepted input changes and including the initial
\* state with one row, the total price cell shows the sum of the prices the
\* rows currently in the worksheet show.
C20_TotalIsSumOfRows ==
    sheet.connected => parseAmount(sheet.total) = ShownSum(sheet.rows)

\* the number a row's number input stands for in a calculation
NumberOf(value) == IF parseInt(value) = NaN THEN 0 ELSE parseInt(value)
\* the due date of the row is set and at most rushJobDays days after t
IsRush(row, t) ==
    /\ row.dueDate # <<>>
    /\ DateParse(row.dueDate) - t <= rushJobDays * TICKS_PER_DAY
\* the price of the row in hundredths of a cent
PriceOf(row, t) ==
    NumberOf(row.quantity) * NumberOf(row.height) * NumberOf(row.width)
        * NumberOf(row.length) * FIRING_OPTIONS[row.firingType]
        * (IF IsRush(row, t) THEN 100 + rushJobPremium ELSE 100)
\* the row shows PriceOf to the nearest cent, and its volume
ShowsItsPrice(row, t) ==
    LET shown == 100 * parseAmount(row.price)
    IN  /\ shown - PriceOf(row, t) <= 50
        /\ PriceOf(row, t) - shown <= 50
        /\ row.volume = NumberOf(row.height) * NumberOf(row.width) * NumberOf(row.length)
\* the rows a step has calculated: the row added, or the row of an accepted change
Calculated(i) ==
    /\ sheet'.event \in {"connectedCallback", "addRow", "change"}
    /\ i \in 1..Len(sheet'.rows)
    /\ i > Len(sheet.rows) \/ sheet'.rows[i] # sheet.rows[i]

\* C21: a row's price is quantity x height x width x length x the unit cost
\* of its firing type, times (1 + rushJobPremium/100) exactly when a due date
\* is set and at most rushJobDays days away, shown to the nearest cent; its
\* volume cell is height x width x length.
C21_RowPrice ==
    [][\A i \in 1..MaxSheetRows + 1 : Calculated(i) => ShowsItsPrice(sheet'.rows[i], now)]_vars

\* a row with a height of 3 and a due date three days away shows 3 x $0.04 x 1.25
C21_Witness ==
    /\ sheet.event = "change"
    /\ \E i \in 1..Len(sheet.rows) :
          /\ sheet.rows[i].dueDate = <<2023, 4, 4>>
          /\ sheet.rows[i].height = <<51>>
          /\ sheet.rows[i].firingType = "Bisque"
          /\ sheet.rows[i].price = <<36, 48, 46, 49, 53>>

\* the custom-type line items of a cart, in the cart's order
IsCustomType(item) == "custom" \in DOMAIN item.itemType
CustomItemsOf(cart) == SelectSeq(cart.lineItems, IsCustomType)
\* the custom line items are one per row of the worksheet, in the rows' order
OnePerRow(items, worksheetData) ==
    /\ Len(items) = Len(worksheetData)
    /\ \A i \in 1..Len(items) :
          /\ items[i].catalogItemId = worksheetData[i]._id
          /\ items[i].quantity = worksheetData[i].quantity

\* C22: when a current cart exists, a successful addWorksheetToCart leaves
\* that cart with exactly one custom line item per submitted worksheet row:
\* the custom line items it held are removed before the new ones are added,
\* so a second submission replaces the items of the first.
C22_FiringItemsReplaced ==
    [][(shop.current # NoCart /\ "returned" \in DOMAIN shop'.call)
        => OnePerRow(CustomItemsOf(shop'.current), shop'.call.worksheetData)]_vars

\* the number, in hundredths, a value of a field stands for, NaN when none
Denotes(x) ==
    IF x.t = "number" THEN x.v
    ELSE IF x.t = "string" /\ x.v # <<>> /\ \A i \in 1..Len(x.v) : x.v[i] \in 48..57
    THEN 100 * DigitsValue(x.v)
    ELSE NaN
Within(n, lo, hi) == n # NaN /\ lo <= n /\ n <= hi
\* an item with a quantity that is no integer in 1..999, a price outside
\* 0.01..1500.99 or a dimension that is not positive
BadItem(item) ==
    \/ item = NullItem
    \/ "quantity" \notin DOMAIN item
    \/ ~(\E k \in 1..999 : Denotes(item.quantity) = 100 * k)
    \/ "price" \notin DOMAIN item
    \/ ~Within(Denotes(item.price), 1, 150099)
    \/ \E dim \in {"height", "width", "length"} \cap DOMAIN item :
          ~Within(Denotes(item[dim]), 1, NaN - 1)
\* the quantities of the items add up to more than 99
RECURSIVE TotalOf(_)
TotalOf(worksheetData) ==
    IF worksheetData = <<>> THEN 0
    ELSE TotalOf(Tail(worksheetData))
         + (IF /\ Head(worksheetData) # NullItem
               /\ "quantity" \in DOMAIN Head(worksheetData)
               /\ Denotes(Head(worksheetData).quantity) # NaN
            THEN Denotes(Head(worksheetData).quantity) ELSE 0)
BadWorksheet(worksheetData) ==
    \/ worksheetData = NotAnArray
    \/ worksheetData = <<>>
    \/ TotalOf(worksheetData) > 100 * 99
    \/ \E i \in 1..Len(worksheetData) : BadItem(worksheetData[i])

\* C23: a call of the validating addWorksheetToCart whose worksheetData is no
\* array, is empty, has a total quantity above 99 or holds an item with a
\* quantity that is no integer in 1..999, a price outside 0.01..1500.99 or a
\* dimension that is not positive, fails with an error, and no cart is read,
\* created or modified by it.
C23_InvalidDataRejected ==
    [][BadWorksheet(shop'.call.worksheetData)
        => /\ "threw" \in DOMAIN shop'.call
           /\ shop'.call.log = <<>>
           /\ shop'.created = <<>>
           /\ shop'.current = shop.current]_vars

\* a visitor with a cart has sent 60 and 40 pieces, each item valid, and the
\* call has failed before any service was called
C23_Witness ==
    /\ shop.current # NoCart
    /\ shop.call.fn = "addWorksheetToCart"
    /\ Len(shop.call.worksheetData) = 2
    /\ \A i \in 1..2 : ~BadItem(shop.call.worksheetData[i])
    /\ TotalOf(shop.call.worksheetData) = 100 * 100
    /\ "threw" \in DOMAIN shop.call
    /\ shop.call.log = <<>>

\* a number of the dispatched data is one that input validation lets pass
IsValidated(n) == n # NaN /\ 1 <= n /\ n <= MAX_QUANTITY
\* the price of a dispatched row is that of its values, with or without the
\* rush premium, to the nearest cent
PriceOfItsValues(item) ==
    LET plain == item.quantity * item.height * item.width * item.length * item.unitCost
    IN  \E percent \in {100, 100 + rushJobPremium} :
            /\ 100 * item.price - plain * percent <= 50
            /\ plain * percent - 100 * item.price <= 50

\* C28: every row of the data submitWorksheet dispatches has a height, a
\* width, a length and a quantity that passed input validation (not empty,
\* numeric, positive, not above the maximum), and the price of those values.
C28_SubmitsValidatedRows ==
    sheet.event = "submitWorksheet"
    => \A i \in 1..Len(sheet.data) :
          /\ \A f \in NumberFields : IsValidated(sheet.data[i][f])
          /\ PriceOfItsValues(sheet.data[i])

\* the text is the decimal notation of an integer in 1..max
IsIntegerUpTo(text, max) ==
    /\ text # <<>>
    /\ \A i \in 1..Len(text) : text[i] \in 48..57
    /\ DigitsValue(text) \in 1..max
\* the limit of a number field
LimitOf(field) == IF field = "quantity" THEN MAX_QUANTITY ELSE MAX_DIMENSION

\* C30: the value of a number input is accepted (its cell carries no error)
\* exactly when it is an integer within the limit of its own field: 1..55
\* for a height, a width or a length, 1..120 for a quantity.
C30_AcceptedWithinOwnLimit ==
    \A i \in 1..Len(sheet.rows) : \A field \in NumberFields :
        field \notin sheet.rows[i].errors
        <=> IsIntegerUpTo(sheet.rows[i][field], LimitOf(field))

\* C29: the cart line item built from a submitted worksheet row charges the
\* row's worksheet price: its price times its quantity is the price the row
\* shows in the worksheet (for the rows all of whose inputs were accepted).
C29_LineItemChargesRowPrice ==
    sheet.event = "submitWorksheet"
    => \A i \in 1..Len(sheet.data) :
          LET lineItem == createCartItemData(sheet.data[i])
          IN  sheet.rows[i].errors = {}
              => parseAmount(lineItem.price) * lineItem.quantity
                 = parseAmount(sheet.rows[i].price)

\* C24: the worksheet with managed Delete buttons always holds at least one
\* row: the Delete button of an only row is disabled, and with two or more
\* rows every Delete button is enabled.
C24_AtLeastOneRow ==
    sheet.connected
    => /\ Len(sheet.rows) >= 1
       /\ \A i \in 1..Len(sheet.rows) : sheet.rows[i].disabled <=> Len(sheet.rows) = 1

\* a row was added and deleted again: one row is left, its button disabled
C24_Witness ==
    /\ sheet.event = "delete"
    /\ Len(sheet.rows) = 1
    /\ sheet.rows[1].disabled

\* C25: a request whose load failed is answered by doGet with an
\* {error, status} payload, never with employee or department data.
C25_FailedLoadAnswersError ==
    (called.fn = "doGet" /\ triggered /\ lastLoad = "failed") => IsError(response)

\* what getDepartmentByName answers for the department of an entry of the
\* list, asked with the includePastEmployees of the getDepartments call
ByNameFor(entry) ==
    getDepartmentByName(employeeData, departments,
        [parameter |-> SetProp(called.e.parameter, "departmentName", entry.id)])

\* C26: every entry of the list getDepartments returns has the
\* departmentHeadcount and the averageTenureInMonths that getDepartmentByName
\* returns for the same department and the same includePastEmployees (the
\* 'all' record, which has no id to ask for, left aside).
C26_ListAgreesWithByName ==
    (called.fn = "getDepartments" /\ "departments" \in DOMAIN response)
    => \A i \in 1..Len(response.departments) :
          LET entry == response.departments[i]
              byName == ByNameFor(entry)
          IN  entry.id # Undefined
              => /\ "department" \in DOMAIN byName
                 /\ byName.department.id = entry.id
                 /\ byName.department.departmentHeadcount = entry.departmentHeadcount
                 /\ byName.department.averageTenureInMonths = entry.averageTenureInMonths

\* C27: if addWorksheetToCart ends in an error, the current cart's line items
\* are the same as before the call: a failed submission never leaves the cart
\* with the previous custom firing items removed and the new ones not added.
C27_FailedCallKeepsCart ==
    [][("threw" \in DOMAIN shop'.call) => shop'.current = shop.current]_vars

====
